---------------------------- MODULE Spec2Model ----------------------------
(***************************************************************************)
(* A model of the AthenaPK hydro core: package initialisation              *)
(* (hydro.cpp), the hyperbolic timestep estimate (hydro.cpp), the choice   *)
(* of the number of RKL2 sub-stages, the super-time-stepping task sequence *)
(* and the per-stage task collection of the driver (hydro_driver.cpp) and  *)
(* the isotropic fixed-coefficient conduction flux (conduction.cpp).       *)
(*                                                                         *)
(* Real numbers are exact rationals <<n, d>> with d > 0 in lowest terms:   *)
(* floating-point rounding is not modelled.                                *)
(***************************************************************************)
EXTENDS Integers, Sequences, FiniteSets, TLC

VARIABLES
  ini,   \* Hydro::Initialize: the parameter input, the package built, the outcome
  stg,   \* AddSTSTasks, stage count: tau, dt_diff, s_rkl
  est,   \* Hydro::EstimateTimestep: the block, its primitives, the result
  cfg,   \* driver: the run's configuration (input parameters, integrator, tm.dt)
  pkg,   \* driver: the package parameters the tasks update (mindx, dt_hyp, dt_diff, c_h)
  reg,   \* driver: the registers base, u1, MY0, Yjm2 of every block
  bnd,   \* driver: the boundary buffers of every block and register
  tc,    \* driver: the stage, its task collection, the region reached, the tasks done
  hst,   \* history of the run: sequences built, tasks executed, what they read and wrote
  cnd,   \* conduction.cpp: the thermal diffusivity, the cell's inputs, the outcome
  agn,   \* AGNFeedback::FeedbackSrcTerm: the feedback parameters, the cell, the outcome
  flx,   \* Hydro::CalculateFluxes: the primitives, the flux arrays, the scratch buffers
  knl    \* one kernel (RKL2Step, DonorCell, thermal fluxes): its arrays and iterations

vars == <<ini, stg, est, cfg, pkg, reg, bnd, tc, hst, cnd, agn, flx, knl>>
drv == <<cfg, pkg, reg, bnd, tc, hst>>
aux == <<cnd, agn, flx, knl>>

\* the value of a variable the specification at hand does not use
StgIdle == [pc |-> "idle"]
IniIdle == [pc |-> "idle"]
EstIdle == [pc |-> "idle"]
DrvIdle == [pc |-> "idle"]
CndIdle == [pc |-> "idle"]
AgnIdle == [pc |-> "idle"]
FlxIdle == [pc |-> "idle"]
KnlIdle == [pc |-> "idle"]
DriverIdle ==
  /\ cfg = DrvIdle /\ pkg = DrvIdle /\ reg = DrvIdle
  /\ bnd = DrvIdle /\ tc = DrvIdle /\ hst = DrvIdle
AuxIdle == cnd = CndIdle /\ agn = AgnIdle /\ flx = FlxIdle /\ knl = KnlIdle

(***************************************************************************)
(* Real arithmetic                                                         *)
(***************************************************************************)
RECURSIVE GCD(_, _)
GCD(a, b) == IF b = 0 THEN a ELSE GCD(b, a % b)

IAbs(a) == IF a < 0 THEN -a ELSE a

\* the rational n/d (d # 0) in lowest terms with a positive denominator
Rat(n, d) ==
  LET g == GCD(IAbs(n), IAbs(d))
      sgn == IF d < 0 THEN -1 ELSE 1
  IN <<sgn * (n \div g), sgn * (d \div g)>>

R(n) == <<n, 1>>
RAdd(a, b) ==
  LET g == GCD(a[2], b[2])
  IN Rat(a[1] * (b[2] \div g) + b[1] * (a[2] \div g), (a[2] \div g) * b[2])
RNeg(a) == <<-a[1], a[2]>>
RSub(a, b) == RAdd(a, RNeg(b))
RMul(a, b) ==
  LET g1 == GCD(IAbs(a[1]), b[2])
      g2 == GCD(IAbs(b[1]), a[2])
  IN IF a[1] = 0 \/ b[1] = 0 THEN <<0, 1>>
     ELSE <<(a[1] \div g1) * (b[1] \div g2), (a[2] \div g2) * (b[2] \div g1)>>
RDiv(a, b) == RMul(a, Rat(b[2], b[1]))
RLt(a, b) == a[1] * b[2] < b[1] * a[2]
RLe(a, b) == a[1] * b[2] <= b[1] * a[2]
RMin(a, b) == IF RLt(b, a) THEN b ELSE a      \* fmin / std::min
RMax(a, b) == IF RLt(a, b) THEN b ELSE a
RAbs(a) == <<IAbs(a[1]), a[2]>>               \* fabs
RSqr(a) == RMul(a, a)                          \* SQR

(***************************************************************************)
(* Hydro::Initialize (hydro.cpp:37-82)                                     *)
(***************************************************************************)
\* An input parameter is <<>> when the input file does not give it, <<v>> when it does.
EosStrings == {"adiabatic", "isothermal", "Adiabatic"}
PinInputs ==
  [ eos : {<<>>} \cup { <<e>> : e \in EosStrings },
    gamma : {<<>>, <<Rat(5, 3)>>},
    cfl : {<<>>, <<Rat(1, 2)>>},
    dfloor : {<<>>, <<Rat(1, 100)>>},
    pfloor : {<<>>, <<Rat(1, 100)>>},
    use_scratch : {<<>>, <<TRUE>>, <<FALSE>>},
    scratch_level : {<<>>, <<0>>, <<1>>} ]

\* pin->GetOrAddReal / GetOrAddBoolean / GetOrAddInteger: the value given, else the default
GetOrAdd(given, default) == IF given = <<>> THEN default ELSE given[1]

\* the parameter input after GetOrAdd* has stored a default
Added(given, default) == IF given = <<>> THEN <<default>> ELSE given

\* the nhydro variables and the four fields the package registers
RegisteredFields == {"cons", "prim", "wl", "wr"}

\* the package up to the eos branch: cfl only
PkgCfl(pin) == [n \in {"cfl"} |-> GetOrAdd(pin.cfl, Rat(3, 10))]

\* the parameters added after the eos branch
PkgRest(pin) ==
  [n \in {"use_scratch", "scratch_level", "nhydro"} |->
     CASE n = "use_scratch" -> GetOrAdd(pin.use_scratch, TRUE)
       [] n = "scratch_level" -> GetOrAdd(pin.scratch_level, 1)
       [] n = "nhydro" -> 5]

\* AdiabaticHydroEOS eos(pfloor, dfloor, gamma); the default floor is
\* std::sqrt(1024 * float_min), kept as a symbol
PkgEos(pin) ==
  [n \in {"eos"} |->
     [pfloor |-> GetOrAdd(pin.pfloor, "sqrt(1024*float_min)"),
      dfloor |-> GetOrAdd(pin.dfloor, "sqrt(1024*float_min)"),
      gamma |-> pin.gamma[1]]]

\* the else-branch of the eos selection: "TODO(pgrete) FAIL", a message and no abort
UnknownEosBranch(pin) ==
  [pc |-> "returned", out |-> <<"Whoops, EOS undefined">>,
   pin |-> [pin EXCEPT !.cfl = Added(@, Rat(3, 10)),
                       !.use_scratch = Added(@, TRUE),
                       !.scratch_level = Added(@, 1)],
   pkg |-> [params |-> PkgCfl(pin) @@ PkgRest(pin), fields |-> RegisteredFields,
            FillDerived |-> "ConsToPrim", EstimateTimestep |-> "EstimateTimestep"]]

AdiabaticBranch(pin) ==
  IF pin.gamma = <<>>
  THEN \* pin->GetReal("hydro", "gamma") of a missing parameter throws
       [pc |-> "aborted", out |-> <<>>,
        pin |-> [pin EXCEPT !.cfl = Added(@, Rat(3, 10))],
        pkg |-> [params |-> PkgCfl(pin), fields |-> {},
                 FillDerived |-> "", EstimateTimestep |-> ""]]
  ELSE [pc |-> "returned", out |-> <<>>,
        pin |-> [pin EXCEPT !.cfl = Added(@, Rat(3, 10)),
                            !.dfloor = Added(@, "sqrt(1024*float_min)"),
                            !.pfloor = Added(@, "sqrt(1024*float_min)"),
                            !.use_scratch = Added(@, TRUE),
                            !.scratch_level = Added(@, 1)],
        pkg |-> [params |-> PkgCfl(pin) @@ PkgEos(pin) @@ PkgRest(pin),
                 fields |-> RegisteredFields,
                 FillDerived |-> "ConsToPrim", EstimateTimestep |-> "EstimateTimestep"]]

InitializeResult(pin) ==
  IF pin.eos = <<>>
  THEN \* pin->GetString("hydro", "eos") of a missing parameter throws
       [pc |-> "aborted", out |-> <<>>,
        pin |-> [pin EXCEPT !.cfl = Added(@, Rat(3, 10))],
        pkg |-> [params |-> PkgCfl(pin), fields |-> {},
                 FillDerived |-> "", EstimateTimestep |-> ""]]
  ELSE IF pin.eos[1] = "adiabatic" THEN AdiabaticBranch(pin)
  ELSE UnknownEosBranch(pin)

InitInitialize ==
  /\ \E pin \in PinInputs :
       ini = [pc |-> "start", out |-> <<>>, pin |-> pin,
              pkg |-> [params |-> <<>>, fields |-> {},
                       FillDerived |-> "", EstimateTimestep |-> ""]]
  /\ stg = StgIdle
  /\ est = EstIdle
  /\ DriverIdle /\ AuxIdle

Initialize ==
  /\ ini.pc = "start"
  /\ ini' = InitializeResult(ini.pin)
  /\ UNCHANGED <<stg, est, drv, aux>>

NextInitialize == Initialize

SpecInitialize == InitInitialize /\ [][NextInitialize]_vars

\* C1: for every eos string other than a recognized one, Hydro::Initialize aborts
\* and never returns a package that lacks an "eos" parameter.
C1_UnknownEosIsFatal ==
  /\ ini.pc = "returned" => "eos" \in DOMAIN ini.pkg.params
  /\ (ini.pc \in {"returned", "aborted"} /\ ini.pin.eos # <<"adiabatic">>)
       => ini.pc = "aborted"


(***************************************************************************)
(* Hydro::EstimateTimestep (hydro.cpp:98-140)                              *)
(***************************************************************************)
NGhost == 1    \* ghost layers on each side of an active dimension

\* std::numeric_limits<Real>::max(): above every value of the model
RealMax == <<1, 0>>

\* block_size.nx1, nx2, nx3
BlockShapes == {<<1, 1, 1>>, <<2, 1, 1>>, <<3, 1, 1>>, <<2, 2, 1>>, <<2, 2, 2>>}

\* cellbounds.GetBounds*(IndexDomain::interior) and (entire) of dimension d (1, 2, 3):
\* only a dimension with more than one cell (and X1) carries ghost layers
Active(nx, d) == d = 1 \/ nx[d] > 1
IntS(nx, d) == IF Active(nx, d) THEN NGhost ELSE 0
IntE(nx, d) == IntS(nx, d) + nx[d] - 1
EntE(nx, d) == IF Active(nx, d) THEN nx[d] + 2 * NGhost - 1 ELSE 0

\* cells are <<k, j, i>>
InteriorCells(nx) ==
  { <<k, j, i>> : k \in IntS(nx, 3)..IntE(nx, 3), j \in IntS(nx, 2)..IntE(nx, 2),
                  i \in IntS(nx, 1)..IntE(nx, 1) }
EntireCells(nx) ==
  { <<k, j, i>> : k \in 0..EntE(nx, 3), j \in 0..EntE(nx, 2), i \in 0..EntE(nx, 1) }

\* the largest r with r * r <= n
RECURSIVE ISqrtFrom(_, _)
ISqrtFrom(r, n) == IF (r + 1) * (r + 1) > n THEN r ELSE ISqrtFrom(r + 1, n)
ISqrt(n) == ISqrtFrom(0, n)
IsSquare(a) == ISqrt(a[1]) * ISqrt(a[1]) = a[1] /\ ISqrt(a[2]) * ISqrt(a[2]) = a[2]

\* eos.SoundSpeed(w) = sqrt(gamma * p / rho), for states where the root is rational
SoundSpeed(gamma, w) ==
  LET c2 == RDiv(RMul(gamma, w.p), w.d) IN <<ISqrt(c2[1]), ISqrt(c2[2])>>

\* primitive states w[IDN], w[IVX], w[IVY], w[IVZ], w[IPR]
PrimPalette ==
  << [d |-> R(5), vx |-> R(0), vy |-> R(0), vz |-> R(0), p |-> R(3)],
     [d |-> R(5), vx |-> R(-1), vy |-> R(3), vz |-> R(-6), p |-> R(12)],
     [d |-> R(20), vx |-> Rat(1, 2), vy |-> R(-2), vz |-> R(4), p |-> R(3)],
     [d |-> R(5), vx |-> R(2), vy |-> R(-9), vz |-> R(1), p |-> R(27)] >>

\* a primitive array over the entire block, ghost cells included
PrimField(nx, a, b, c, o) ==
  [ x \in EntireCells(nx) |->
      PrimPalette[((a * x[3] + b * x[2] + c * x[1] + o) % Len(PrimPalette)) + 1] ]

\* coords.Dx(dir, k, j, i) on a uniform block
DxChoices == { <<R(1), Rat(1, 8), Rat(1, 16)>>, <<Rat(1, 2), R(1), R(2)>> }

\* the body of the reduction for one cell: mutants take X2 into account always
CellMinAlwaysX2(e, x, min_dt) ==
  LET w == e.prim[x]
      cs == SoundSpeed(e.gamma, w)
      m1 == RMin(min_dt, RDiv(e.dx[1], RAdd(RAbs(w.vx), cs)))
      m2 == RMin(m1, RDiv(e.dx[2], RAdd(RAbs(w.vy), cs)))
  IN IF e.nx[3] > 1 THEN RMin(m2, RDiv(e.dx[3], RAdd(RAbs(w.vz), cs))) ELSE m2

CellMin(e, x, min_dt) ==
  LET w == e.prim[x]
      cs == SoundSpeed(e.gamma, w)
      m1 == RMin(min_dt, RDiv(e.dx[1], RAdd(RAbs(w.vx), cs)))
      m2 == IF e.nx[2] > 1 THEN RMin(m1, RDiv(e.dx[2], RAdd(RAbs(w.vy), cs))) ELSE m1
  IN IF e.nx[3] > 1 THEN RMin(m2, RDiv(e.dx[3], RAdd(RAbs(w.vz), cs))) ELSE m2

\* the range of the reduction: {kb.s, jb.s, ib.s} .. {kb.e + 1, jb.e + 1, ib.e + 1}
\* (exclusive); the mutant reduces over the entire block
ReductionRangeEntire(nx) ==
  [s |-> <<0, 0, 0>>, e |-> <<EntE(nx, 1), EntE(nx, 2), EntE(nx, 3)>>]
ReductionRange(nx) ==
  [s |-> <<IntS(nx, 1), IntS(nx, 2), IntS(nx, 3)>>,
   e |-> <<IntE(nx, 1), IntE(nx, 2), IntE(nx, 3)>>]

\* the n-th cell (from 0) of a range, i running fastest
RangeCell(r, n) ==
  LET n1 == r.e[1] - r.s[1] + 1
      n2 == r.e[2] - r.s[2] + 1
  IN <<r.s[3] + (n \div (n1 * n2)), r.s[2] + ((n \div n1) % n2), r.s[1] + (n % n1)>>
RangeSize(r) == (r.e[1] - r.s[1] + 1) * (r.e[2] - r.s[2] + 1) * (r.e[3] - r.s[3] + 1)

\* Kokkos::parallel_reduce with Kokkos::Min over cells n, n+1, ... of the range:
\* each cell's body starts from the reducer's identity (the maximum) and the
\* partial results are joined by min
RECURSIVE ReduceMin(_, _, _)
ReduceMin(e, r, n) ==
  IF n = RangeSize(r) THEN RealMax
  ELSE RMin(CellMin(e, RangeCell(r, n), RealMax), ReduceMin(e, r, n + 1))

EstimateTimestepResult(e) ==
  RMul(e.cfl, RMin(RealMax, ReduceMin(e, ReductionRange(e.nx), 0)))

\* blocks whose primitives all have a rational sound speed
EstimateInputs ==
  { e \in { [pc |-> "start", nx |-> nx, dx |-> dx, cfl |-> Rat(3, 10),
             gamma |-> Rat(5, 3), prim |-> PrimField(nx, a, b, c, o), dt |-> R(0)] :
             nx \in BlockShapes, dx \in DxChoices,
             a \in 0..1, b \in 0..1, c \in 0..1, o \in 0..3 } :
      \A x \in DOMAIN e.prim : IsSquare(RDiv(RMul(e.gamma, e.prim[x].p), e.prim[x].d)) }

InitEstimate ==
  /\ est \in EstimateInputs
  /\ ini = IniIdle
  /\ stg = StgIdle
  /\ DriverIdle /\ AuxIdle

EstimateTimestep ==
  /\ est.pc = "start"
  /\ est' = [est EXCEPT !.pc = "done", !.dt = EstimateTimestepResult(est)]
  /\ UNCHANGED <<ini, stg, drv, aux>>

NextEstimate == EstimateTimestep

SpecEstimate == InitEstimate /\ [][NextEstimate]_vars

\* the set of per-cell, per-direction limits dx_d / (|v_d| + cs) over the interior
\* cells and the active dimensions
HypLimits(e) ==
  { RDiv(e.dx[d], RAdd(RAbs(CASE d = 1 -> e.prim[x].vx [] d = 2 -> e.prim[x].vy
                                   [] d = 3 -> e.prim[x].vz),
                       SoundSpeed(e.gamma, e.prim[x]))) :
      x \in InteriorCells(e.nx), d \in { q \in 1..3 : q = 1 \/ e.nx[q] > 1 } }

\* C10: EstimateTimestep returns CFL times the minimum over all interior cells and
\* over the active dimensions only of dx_d / (|v_d| + soundSpeed); ghost cells never
\* contribute; for a single cell in 1D the result is CFL*dx/(|v| + cs).
C10_HyperbolicTimestep ==
  est.pc = "done" =>
    /\ \E m \in HypLimits(est) :
         /\ \A l \in HypLimits(est) : RLe(m, l)
         /\ est.dt = RMul(est.cfl, m)
    /\ est.nx = <<1, 1, 1>> =>
         est.dt = RDiv(RMul(est.cfl, est.dx[1]),
                       RAdd(RAbs(est.prim[<<0, 0, NGhost>>].vx),
                            SoundSpeed(est.gamma, est.prim[<<0, 0, NGhost>>])))

\* a 2D block whose ghost cells and whose X3 direction would give a smaller limit
\* than the one returned
C10_Witness ==
  /\ est.pc = "done"
  /\ est.nx = <<2, 2, 1>>
  /\ \E x \in EntireCells(est.nx) \ InteriorCells(est.nx) :
       RLt(RMul(est.cfl, CellMin(est, x, RealMax)), est.dt)
  /\ \E x \in InteriorCells(est.nx) :
       RLt(RDiv(est.dx[3], RAdd(RAbs(est.prim[x].vz), SoundSpeed(est.gamma, est.prim[x]))),
           RDiv(est.dt, est.cfl))


(***************************************************************************)
(* AddSTSTasks: the number of RKL2 sub-stages (hydro_driver.cpp:203-210)   *)
(***************************************************************************)
MaxTauTwice == 14   \* tau ranges over k/2, k in 1..MaxTauTwice
MaxDtDiff == 8      \* dt_diff ranges over m and 1/(2m), m in 1..MaxDtDiff

\* static_cast<int>(0.5 * (std::sqrt(a) - 1.0)) for a rational a >= 1: the largest
\* n >= 0 with (2n + 1)^2 <= a
RECURSIVE TruncHalfSqrtM1From(_, _)
TruncHalfSqrtM1From(n, a) ==
  IF (2 * n + 3) * (2 * n + 3) * a[2] > a[1] THEN n
  ELSE TruncHalfSqrtM1From(n + 1, a)

TruncHalfSqrtM1(a) == TruncHalfSqrtM1From(0, a)

\* mutants of StageCount: the "+ 1" dropped; the odd rounding dropped
StageCountNoPlusOne(tau, mindt_diff) ==
  LET s == TruncHalfSqrtM1(RAdd(R(9), RMul(R(16), RDiv(tau, mindt_diff))))
  IN IF s % 2 = 0 THEN s + 1 ELSE s

StageCountNoOdd(tau, mindt_diff) ==
  TruncHalfSqrtM1(RAdd(R(9), RMul(R(16), RDiv(tau, mindt_diff)))) + 1

\* int s_rkl = static_cast<int>(0.5 * (std::sqrt(9.0 + 16.0 * tau / mindt_diff) - 1.0)) + 1;
\* if (s_rkl % 2 == 0) s_rkl += 1;
StageCount(tau, mindt_diff) ==
  LET s == TruncHalfSqrtM1(RAdd(R(9), RMul(R(16), RDiv(tau, mindt_diff)))) + 1
  IN IF s % 2 = 0 THEN s + 1 ELSE s

\* const auto ratio = 2.0 * tau / mindt_diff;
StsRatio(tau, mindt_diff) == RDiv(RMul(R(2), tau), mindt_diff)

\* the denominator of w1 = 4. / (s * s + s - 2.0) in RKL2Step
W1Den(s) == s * s + s - 2

StageInputs ==
  { [tau |-> Rat(k, 2), mindt_diff |-> d] :
      k \in 1..MaxTauTwice,
      d \in { R(m) : m \in 1..MaxDtDiff } \cup { Rat(1, 2 * m) : m \in 1..MaxDtDiff } }

InitStages ==
  /\ \E inp \in StageInputs :
       stg = [pc |-> "start", tau |-> inp.tau, mindt_diff |-> inp.mindt_diff, s_rkl |-> 0]
  /\ ini = IniIdle
  /\ est = EstIdle
  /\ DriverIdle /\ AuxIdle

ComputeStages ==
  /\ stg.pc = "start"
  /\ stg' = [stg EXCEPT !.pc = "done", !.s_rkl = StageCount(stg.tau, stg.mindt_diff)]
  /\ UNCHANGED <<ini, est, drv, aux>>

NextStages == ComputeStages

SpecStages == InitStages /\ [][NextStages]_vars


(***************************************************************************)
(* The driver's data: blocks, registers, conduction, the RKL2 step         *)
(* (hydro_driver.cpp:82-195, conduction.cpp:180-249, hydro.cpp:86-95)      *)
(*                                                                         *)
(* The mesh is one-dimensional and periodic, one block per partition; a    *)
(* block holds BlockNx interior cells and NGhost ghost cells on each side. *)
(* A register holds the conserved variables d (IDN), m (IM1), e (IEN) and, *)
(* for base and u1, the primitives d, v, p and the X1 flux array.          *)
(***************************************************************************)
NumBlocks == 2   \* blocks.size() and DefaultNumPartitions()
BlockNx == 2     \* interior cells of a block

Blocks == 1..NumBlocks
\* ib.s, ib.e and the last cell of the entire range
IbS == NGhost
IbE == NGhost + BlockNx - 1
LastCell == BlockNx + 2 * NGhost - 1
Cells == 0..LastCell
Interior == IbS..IbE
ConsVars == {"d", "m", "e"}

Zero3 == [d |-> R(0), m |-> R(0), e |-> R(0)]

\* AdiabaticHydroEOS::ConservedToPrimitive of one cell: density floor, velocity,
\* pressure with its floor
PrimOfCell(eos, u) ==
  LET d == RMax(u.d, eos.dfloor)
      ek == RDiv(RSqr(u.m), RMul(R(2), d))
  IN [d |-> d, v |-> RDiv(u.m, d),
      p |-> RMax(RMul(RSub(eos.gamma, R(1)), RSub(u.e, ek)), eos.pfloor)]

\* ConsToPrim: the conversion over IndexDomain::entire; the mutant converts the
\* interior only
ConsToPrimInterior(eos, r) ==
  [r EXCEPT !.prim = [i \in Cells |-> IF i \in Interior THEN PrimOfCell(eos, r.cons[i])
                                      ELSE r.prim[i]]]
ConsToPrim(eos, r) ==
  [r EXCEPT !.prim = [i \in Cells |-> PrimOfCell(eos, r.cons[i])]]

\* ResetFluxes: cons.flux(X1DIR, v, k, j, i) = 0.0 for i in ib.s .. ib.e + 1
\* (short: for i in ib.s .. ib.e)
ResetFluxesShort(r) ==
  [r EXCEPT !.flux = [i \in Cells |-> IF i \in IbS..IbE THEN Zero3 ELSE r.flux[i]]]
ResetFluxes(r) ==
  [r EXCEPT !.flux = [i \in Cells |-> IF i \in IbS..(IbE + 1) THEN Zero3 ELSE r.flux[i]]]

\* the conduction term of interface i: thermal_diff_coeff * denf * dTdx
HeatFluxTerm(kappa, dx, prim, i) ==
  LET T_i == RDiv(prim[i].p, prim[i].d)
      T_im1 == RDiv(prim[i - 1].p, prim[i - 1].d)
      dTdx == RDiv(RSub(T_i, T_im1), dx)
      denf == RMul(Rat(1, 2), RAdd(prim[i].d, prim[i - 1].d))
  IN RMul(RMul(kappa, denf), dTdx)

\* ThermalFluxIsoFixed, X1 loop: cons.flux(X1DIR, IEN, k, j, i) -= ... for
\* i in ib.s .. ib.e + 1; the mutant stops at ib.e
ThermalFluxIsoFixedShort(kappa, dx, r) ==
  [r EXCEPT !.flux = [i \in Cells |->
     IF i \in IbS..IbE
     THEN [r.flux[i] EXCEPT !.e = RSub(@, HeatFluxTerm(kappa, dx, r.prim, i))]
     ELSE r.flux[i]]]
ThermalFluxIsoFixed(kappa, dx, r) ==
  [r EXCEPT !.flux = [i \in Cells |->
     IF i \in IbS..(IbE + 1)
     THEN [r.flux[i] EXCEPT !.e = RSub(@, HeatFluxTerm(kappa, dx, r.prim, i))]
     ELSE r.flux[i]]]

\* parthenon::Update::FluxDivHelper in one dimension on a uniform block:
\* -(flux(i + 1) - flux(i)) / dx
FluxDivHelper(dx, flux, v, i) == RNeg(RDiv(RSub(flux[i + 1][v], flux[i][v]), dx))

\* parthenon::Update::FluxDivergence(in, dudt_out): the divergence of in's fluxes
\* stored in dudt_out's conserved variables, over the interior
FluxDivergence(dx, rin, rout) ==
  [rout EXCEPT !.cons = [i \in Cells |->
     IF i \in Interior THEN [v \in ConsVars |-> FluxDivHelper(dx, rin.flux, v, i)]
     ELSE rout.cons[i]]]

\* RKL2Step: the coefficients of sub-stage j of s (Meyer+2012 eq. 16)
RklBConstant(j) == Rat(1, 3)
RklB(j) == IF j < 2 THEN Rat(1, 3) ELSE Rat(j * j + j - 2, 2 * j * (j + 1))
RklCoeffs(j, s) ==
  LET w1 == Rat(4, W1Den(s))
      b_j == RklB(j)
      b_jm1 == RklB(j - 1)
      b_jm2 == RklB(j - 2)
      mu_j == RDiv(RMul(Rat(2 * j - 1, j), b_j), b_jm1)
      nu_j == RDiv(RMul(Rat(-(j - 1), j), b_j), b_jm2)
  IN IF j = 1
     THEN [mu |-> R(0), nu |-> R(0), mu_tilde |-> R(0), gamma_tilde |-> RMul(b_j, w1)]
     ELSE [mu |-> mu_j, nu |-> nu_j, mu_tilde |-> RMul(mu_j, w1),
           gamma_tilde |-> RNeg(RMul(RSub(R(1), b_jm1), RMul(mu_j, w1)))]

\* a kernel that differences the neighbouring cell values of Yjm1 instead of its
\* fluxes
RklYjFromCells(c, tau, dx, Y0, Yjm1, Yjm2, MY0, v, i) ==
  LET MYjm1 == RNeg(RDiv(RSub(Yjm1.cons[i + 1][v], Yjm1.cons[i][v]), dx))
  IN RAdd(RAdd(RAdd(RAdd(RMul(c.mu, Yjm1.cons[i][v]), RMul(c.nu, Yjm2.cons[i][v])),
                    RMul(RSub(RSub(R(1), c.mu), c.nu), Y0.cons[i][v])),
               RMul(RMul(c.mu_tilde, tau), MYjm1)),
          RMul(RMul(c.gamma_tilde, tau), MY0.cons[i][v]))
\* RKL2Step, the kernel at one cell and variable: the new Yjm1
RklYj(c, tau, dx, Y0, Yjm1, Yjm2, MY0, v, i) ==
  LET MYjm1 == FluxDivHelper(dx, Yjm1.flux, v, i)
  IN RAdd(RAdd(RAdd(RAdd(RMul(c.mu, Yjm1.cons[i][v]), RMul(c.nu, Yjm2.cons[i][v])),
                    RMul(RSub(RSub(R(1), c.mu), c.nu), Y0.cons[i][v])),
               RMul(RMul(c.mu_tilde, tau), MYjm1)),
          RMul(RMul(c.gamma_tilde, tau), MY0.cons[i][v]))

\* RKL2Step on the registers of one block: Yjm2 takes the old Yjm1 and Yjm1 the new
\* state, over the interior; the mutant updates Y0 in place as well
RKL2StepInPlace(b, j, s, tau, dx) ==
  LET c == RklCoeffs(j, s)
      new == [i \in Interior |-> [v \in ConsVars |->
                RklYj(c, tau, dx, b.base, b.u1, b.Yjm2, b.MY0, v, i)]]
  IN [b EXCEPT
        !.Yjm2.cons = [i \in Cells |-> IF i \in Interior THEN b.u1.cons[i] ELSE @[i]],
        !.u1.cons = [i \in Cells |-> IF i \in Interior THEN new[i] ELSE @[i]],
        !.base.cons = [i \in Cells |-> IF i \in Interior THEN new[i] ELSE @[i]]]
RKL2Step(b, j, s, tau, dx) ==
  LET c == RklCoeffs(j, s)
      new == [i \in Interior |-> [v \in ConsVars |->
                RklYj(c, tau, dx, b.base, b.u1, b.Yjm2, b.MY0, v, i)]]
  IN [b EXCEPT
        !.Yjm2.cons = [i \in Cells |-> IF i \in Interior THEN b.u1.cons[i] ELSE @[i]],
        !.u1.cons = [i \in Cells |-> IF i \in Interior THEN new[i] ELSE @[i]]]

(***************************************************************************)
(* The task collections (hydro_driver.cpp:199-340 and 343-600)             *)
(*                                                                         *)
(* A task collection is a sequence of regions, a region a sequence of task *)
(* lists, a task list a sequence of tasks.  A task names its callable, the *)
(* index in its own list of the task it depends on (0 is TaskID none), the *)
(* block or partition and the register it is applied to, the iteration j  *)
(* of the RKL loop that added it (0 outside the loop) and, for RKL2Step,   *)
(* its arguments s and tau.                                                *)
(***************************************************************************)
Task(name, dep, blk, r) ==
  [name |-> name, dep |-> dep, blk |-> blk, r |-> r, j |-> 0, s |-> 0, tau |-> R(0)]

\* a region [i \in Blocks |-> list] has one task list per block (blocks.size()) or
\* per partition (DefaultNumPartitions())

\* a task added by iteration j of the RKL loop
SubTask(name, dep, blk, j) == [Task(name, dep, blk, "u1") EXCEPT !.j = j]

\* a sub-stage whose send waits for SetBoundaries, which waits for the send
RklSubStageCyclic(j, s_rkl, tau) ==
  << [i \in Blocks |-> << SubTask("StartReceiving", 0, i, j) >>],
     [i \in Blocks |->
       << SubTask("ResetFluxes", 0, i, j),
          SubTask("CalcDiffFluxes", 1, i, j),
          [SubTask("RKL2Step", 2, i, j) EXCEPT !.s = s_rkl, !.tau = tau],
          SubTask("SendBoundaryBuffers", 6, i, j),
          SubTask("ReceiveBoundaryBuffers", 4, i, j),
          SubTask("SetBoundaries", 5, i, j) >>],
     [i \in Blocks |-> << SubTask("ClearBoundary", 0, i, j) >>],
     [i \in Blocks |-> << SubTask("FillDerived", 0, i, j) >>] >>
\* the four regions of RKL2 sub-stage j (the body of the "RKL loop")
RklSubStage(j, s_rkl, tau) ==
  << [i \in Blocks |-> << SubTask("StartReceiving", 0, i, j) >>],
     [i \in Blocks |->
       << SubTask("ResetFluxes", 0, i, j),
          SubTask("CalcDiffFluxes", 1, i, j),
          [SubTask("RKL2Step", 2, i, j) EXCEPT !.s = s_rkl, !.tau = tau],
          SubTask("SendBoundaryBuffers", 3, i, j),
          SubTask("ReceiveBoundaryBuffers", 4, i, j),
          SubTask("SetBoundaries", 5, i, j) >>],
     [i \in Blocks |-> << SubTask("ClearBoundary", 0, i, j) >>],
     [i \in Blocks |-> << SubTask("FillDerived", 0, i, j) >>] >>

\* for (int j = 1; j <= s_rkl; j++)
RECURSIVE RklLoop(_, _, _)
RklLoop(j, s_rkl, tau) ==
  IF j > s_rkl THEN << >>
  ELSE RklSubStage(j, s_rkl, tau) \o RklLoop(j + 1, s_rkl, tau)

\* AddSTSTasks: the regions it appends to the task collection
AddSTSTasks(tau, mindt_diff) ==
  LET s_rkl == StageCount(tau, mindt_diff)
      region_init == [i \in Blocks |-> << Task("CopyConsToYjm1", 0, i, "u1") >>]
      region_rkl2_step_init ==
        [i \in Blocks |->
          << Task("ResetFluxes", 0, i, "base"),
             Task("CalcDiffFluxes", 1, i, "base"),
             Task("FluxDivergence", 2, i, "base") >>]
      region_copy_out == [i \in Blocks |-> << Task("CopyOut", 0, i, "base") >>]
  IN << region_init, region_rkl2_step_init >> \o RklLoop(1, s_rkl, tau)
       \o << region_copy_out >>

\* the tau of the two calls of AddSTSTasks: 0.5 * tm.dt; the mutant of the second
\* call passes the full step
PostStsTauFull(dt) == dt
PreStsTau(dt) == RMul(Rat(1, 2), dt)
PostStsTau(dt) == RMul(Rat(1, 2), dt)

\* the single task list of the c_h region: reset of mindx, CalculateGlobalMinDx of
\* every partition chained one after the other, the MPI reduction, the update
\* (unchained: every CalculateGlobalMinDx depends on the reset only)
CalcChListUnchained(c) ==
  LET reset == << Task("ResetMinDx", 0, 0, "") >>
      mins == [i \in Blocks |-> Task("CalculateGlobalMinDx", 1, i, "base")]
      n == 1 + NumBlocks
      reduce == IF c.mpi THEN << Task("AllReduceMins", n, 0, "") >> ELSE << >>
  IN reset \o mins \o reduce
       \o << Task("UpdateCh", n + Len(reduce), 0, "") >>
CalcChList(c) ==
  LET reset == << Task("ResetMinDx", 0, 0, "") >>
      mins == [i \in Blocks |-> Task("CalculateGlobalMinDx", i, i, "base")]
      n == 1 + NumBlocks
      reduce == IF c.mpi THEN << Task("AllReduceMins", n, 0, "") >> ELSE << >>
  IN reset \o mins \o reduce
       \o << Task("UpdateCh", n + Len(reduce), 0, "") >>

\* MakeTaskCollection(blocks, stage), in the parts the two calls of AddSTSTasks
\* separate: c is the run's configuration, dt_diff the package parameter read by
\* AddSTSTasks when the collection is built
\* the final Strang half step and the first-order split source, added after
\* source_unsplit (task 2 of the list) in the last stage only
SplitSourcesEveryStage(last, i) ==
  << Task("AddSplitSourcesStrang", 2, i, "base"),
     Task("AddSplitSourcesFirstOrder", 3, i, "base") >>
SplitSources(last, i) ==
  IF last
  THEN << Task("AddSplitSourcesStrang", 2, i, "base"),
          Task("AddSplitSourcesFirstOrder", 3, i, "base") >>
  ELSE << >>

\* a timestep region added in every stage
TimestepRegionEveryStage(c, stage) ==
  << [i \in Blocks |-> << Task("EstimateTimestep", 0, i, "base") >>] >>
\* if (stage == integrator->nstages) { TaskRegion &tr = ...; EstimateTimestep }
TimestepRegion(c, stage) ==
  IF stage = c.nstages
  THEN << [i \in Blocks |-> << Task("EstimateTimestep", 0, i, "base") >>] >>
  ELSE << >>

MakeTaskCollectionParts(c, dt_diff, stage) ==
  LET last == (stage = c.nstages)
      rkl2 == (c.diffint = "rkl2")
      async_region_1 == [i \in Blocks |-> << >>]
      single_task_region ==
        IF c.calc_c_h /\ stage = 1 THEN << [i \in {1} |-> CalcChList(c)] >> ELSE << >>
      strang_init_region ==
        IF stage = 1
        THEN << [i \in Blocks |-> << Task("AddSplitSourcesStrang", 0, i, "base") >>] >>
        ELSE << >>
      async_region_init_int ==
        [i \in Blocks |->
          << Task("StartReceiving", 0, i, "base") >>
          \o (IF stage = 1 THEN << Task("InitU1", 0, i, "u1") >> ELSE << >>)]
      single_tasklist_per_pack_region ==
        [i \in Blocks |->
          << Task("CalcFlux", 0, i, "base") >>
          \o (IF c.first_order_flux_correct
              THEN << Task("FirstOrderFluxCorrect", 1, i, "base") >> ELSE << >>)]
      async_region_2 ==
        [i \in Blocks |->
          << Task("SendFluxCorrection", 0, i, "base"),
             Task("ReceiveFluxCorrection", 0, i, "base") >>]
      single_tasklist_per_pack_region_2 ==
        [i \in Blocks |->
          LET src == << Task("UpdateWithFluxDivergence", 0, i, "base"),
                        Task("AddUnsplitSources", 1, i, "base") >>
                     \o SplitSources(last, i)
              n == Len(src)
          IN src \o << Task("SendBoundaryBuffers", n, i, "base"),
                       Task("ReceiveBoundaryBuffers", n + 1, i, "base"),
                       Task("SetBoundaries", n + 2, i, "base") >>]
      async_region_3 ==
        [i \in Blocks |->
          << Task("ClearBoundary", 0, i, "base") >>
          \o (IF c.multilevel THEN << Task("ProlongateBoundaries", 0, i, "base") >>
              ELSE << >>)
          \o << Task("ApplyBoundaryConditions", IF c.multilevel THEN 2 ELSE 0, i, "base") >>]
      single_tasklist_per_pack_region_3 ==
        [i \in Blocks |-> << Task("FillDerived", 0, i, "base") >>]
      tr == TimestepRegion(c, stage)
      async_region_4 ==
        IF last /\ c.adaptive
        THEN << [i \in Blocks |-> << Task("Tag", 0, i, "base") >>] >>
        ELSE << >>
  IN [head |-> << async_region_1 >> \o single_task_region,
      pre_sts |-> IF stage = 1 /\ rkl2 THEN AddSTSTasks(PreStsTau(c.dt), dt_diff)
                  ELSE << >>,
      hydro |-> strang_init_region
                \o << async_region_init_int, single_tasklist_per_pack_region,
                      async_region_2, single_tasklist_per_pack_region_2,
                      async_region_3, single_tasklist_per_pack_region_3 >>,
      post_sts |-> IF rkl2 /\ last THEN AddSTSTasks(PostStsTau(c.dt), dt_diff)
                   ELSE << >>,
      tail |-> tr \o async_region_4]

MakeTaskCollection(c, dt_diff, stage) ==
  LET parts == MakeTaskCollectionParts(c, dt_diff, stage)
  IN parts.head \o parts.pre_sts \o parts.hydro \o parts.post_sts \o parts.tail

(***************************************************************************)
(* What the tasks do to a block (hydro_driver.cpp lambdas, hydro.cpp, and  *)
(* the parthenon functions at their call sites)                            *)
(***************************************************************************)
\* periodic neighbours of a block
RightOf(b) == (b % NumBlocks) + 1
LeftOf(b) == ((b + NumBlocks - 2) % NumBlocks) + 1

\* the first task of AddSTSTasks: u1->Get("cons").data.DeepCopy(u0->Get("cons").data)
CopyConsToYjm1Skipped(b) == b
CopyConsToYjm1(b) == [b EXCEPT !.u1.cons = b.base.cons]

\* init_u1: cons always, prim only if copy_prim
InitU1(b, copy_prim) ==
  [b EXCEPT !.u1.cons = b.base.cons,
            !.u1.prim = IF copy_prim THEN b.base.prim ELSE @]

\* the last task of AddSTSTasks: cons and prim of u1 copied to u0; the mutant
\* copies the conserved variables only
CopyOutConsOnly(b) == [b EXCEPT !.base.cons = b.u1.cons]
CopyOut(b) == [b EXCEPT !.base.cons = b.u1.cons, !.base.prim = b.u1.prim]

\* CalcDiffFluxes with isotropic conduction and a fixed coefficient
CalcDiffFluxes(c, r) == ThermalFluxIsoFixed(c.kappa, c.dx, r)

\* parthenon::Update::FillDerived: the package's FillDerived, ConsToPrim
FillDerived(c, r) == ConsToPrim(c.eos, r)

\* calc_flux_fun, the function pointer stored as "flux_first_stage" (stage 1) or
\* "flux_other_stage": the reconstruction and the Riemann solver are not the
\* driver's; the stand-ins write the fluxes at ib.s .. ib.e + 1 from the primitives
\* of the two adjacent cells, an energy flux linear in their pressures ("upwind":
\* the left cell's, "central": the mean) and no mass or momentum flux
HydroFlux(fun, eos, r) ==
  [r EXCEPT !.flux = [i \in Cells |->
     IF i \in IbS..(IbE + 1)
     THEN [d |-> R(0), m |-> R(0),
           e |-> IF fun = "upwind" THEN r.prim[i - 1].p
                 ELSE RMul(Rat(1, 2), RAdd(r.prim[i - 1].p, r.prim[i].p))]
     ELSE r.flux[i]]]

\* parthenon::Update::UpdateWithFluxDivergence(u0, u1, gam0, gam1, beta_dt):
\* u0 = gam0 * u0 + gam1 * u1 + beta_dt * FluxDiv(u0) over the interior
UpdateWithFluxDivergence(b, gam0, gam1, beta_dt, dx) ==
  [b EXCEPT !.base.cons = [i \in Cells |->
     IF i \in Interior
     THEN [v \in ConsVars |->
             RAdd(RAdd(RMul(gam0, b.base.cons[i][v]), RMul(gam1, b.u1.cons[i][v])),
                  RMul(beta_dt, FluxDivHelper(dx, b.base.flux, v, i)))]
     ELSE b.base.cons[i]]]

\* EstimateConductionTimestep, isotropic and fixed, one dimension, uniform dx
\* (TINY_NUMBER is below the resolution of the model)
EstimateConductionTimestep(c) == RMul(Rat(1, 2), RDiv(RSqr(c.dx), c.kappa))

\* the ghost cells of field f of register r of block b hold the neighbours'
\* interior cells
GhostsCurrent(rg, b, r, f) ==
  \A k \in 1..NGhost :
    /\ rg[b][r][f][k - 1] = rg[LeftOf(b)][r][f][IbE - NGhost + k]
    /\ rg[b][r][f][IbE + k] = rg[RightOf(b)][r][f][IbS + k - 1]

\* the primitives of a register are the EOS conversion of its conserved variables
InSync(eos, r) == \A i \in Cells : r.prim[i] = PrimOfCell(eos, r.cons[i])

\* MeshBlockData::StartReceiving, cell_centered_bvars::SendBoundaryBuffers,
\* ReceiveBoundaryBuffers (complete once both neighbours' buffers have arrived),
\* SetBoundaries and MeshBlockData::ClearBoundary on the buffers of register r
NoBuffer == << >>
StartReceiving(bd, b, r) == [bd EXCEPT ![b][r].recv = TRUE]
SendBoundaryBuffers(bd, rg, b, r) ==
  [bd EXCEPT ![RightOf(b)][r].inL = [k \in 1..NGhost |-> rg[b][r].cons[IbE - NGhost + k]],
             ![LeftOf(b)][r].inR = [k \in 1..NGhost |-> rg[b][r].cons[IbS + k - 1]]]
BuffersArrived(bd, b, r) == bd[b][r].inL # NoBuffer /\ bd[b][r].inR # NoBuffer
SetBoundariesNoFill(bd, r) == r
SetBoundaries(bd, r) ==
  [r EXCEPT !.cons = [i \in Cells |->
     IF i < IbS THEN bd.inL[i + 1]
     ELSE IF i > IbE THEN bd.inR[i - IbE]
     ELSE r.cons[i]]]
ClearBoundary(bd, b, r) ==
  [bd EXCEPT ![b][r] = [recv |-> FALSE, inL |-> NoBuffer, inR |-> NoBuffer]]

(***************************************************************************)
(* The driver: one timestep of HydroDriver, stage by stage                 *)
(***************************************************************************)
\* the integrators: rk1, vl2 and rk3 (nstages, beta, gam0, gam1)
Integrators ==
  { [nstages |-> 1, beta |-> << R(1) >>, gam0 |-> << R(0) >>, gam1 |-> << R(1) >>],
    [nstages |-> 2, beta |-> << Rat(1, 2), R(1) >>, gam0 |-> << R(0), R(0) >>,
     gam1 |-> << R(1), R(1) >>],
    [nstages |-> 3, beta |-> << R(1), Rat(1, 4), Rat(2, 3) >>,
     gam0 |-> << R(0), Rat(1, 4), Rat(2, 3) >>,
     gam1 |-> << R(1), Rat(3, 4), Rat(1, 3) >>] }

\* tm.dt: with dx = 1 and thermal_diff_coeff = 4 (dt_diff = 1/8) the half step
\* tau = 1/4 takes 3 RKL2 sub-stages
DtChoices == { Rat(1, 2) }

\* the configurations explored; the optional parts of the task collection
\* (calc_c_h, first_order_flux_correct, multilevel, adaptive) are all absent or,
\* with the two-stage integrator, all present, then with and without MPI_PARALLEL;
\* the three-stage integrator runs without conduction
ConfigSpace ==
  { [nstages |-> g.nstages, beta |-> g.beta, gam0 |-> g.gam0, gam1 |-> g.gam1,
     diffint |-> d, calc_c_h |-> o, mpi |-> o /\ m, first_order_flux_correct |-> o,
     multilevel |-> o, adaptive |-> o,
     dt |-> t, dx |-> R(1), kappa |-> R(4), cfl |-> Rat(3, 10),
     eos |-> [gamma |-> Rat(5, 3), dfloor |-> Rat(1, 100), pfloor |-> Rat(1, 100)],
     flux_first_stage |-> "upwind", flux_other_stage |-> "central",
     remote |-> [mindx |-> Rat(1, 2), dt_hyp |-> Rat(1, 4)]] :
      g \in Integrators, d \in {"none", "rkl2"}, o \in BOOLEAN, m \in BOOLEAN,
      t \in DtChoices }
DriverConfigs ==
  { c \in ConfigSpace : /\ c.calc_c_h => c.nstages = 2
                        /\ c.nstages = 3 => c.diffint = "none" }

\* mindx at the start of a step: never computed, or what an earlier step on a
\* finer mesh left
StaleMinDx == Rat(1, 8)

\* conserved states the initial profiles are made of
ConsPalette ==
  << [d |-> R(1), m |-> R(0), e |-> Rat(3, 2)],
     [d |-> R(2), m |-> R(0), e |-> R(6)],
     [d |-> R(1), m |-> R(1), e |-> R(5)],
     [d |-> R(2), m |-> R(0), e |-> R(3)] >>

\* the periodic profile shifted by o, at cell i of block b (ghost cells included)
ProfileShifts == {0, 1}
ProfileCell(o, b, i) ==
  LET n == NumBlocks * BlockNx
      g == ((b - 1) * BlockNx + (i - IbS) + o + n * (NGhost + 1)) % n
  IN ConsPalette[(g % Len(ConsPalette)) + 1]

\* flux arrays are not guaranteed to be zero
StaleFlux == [i \in Cells |-> [d |-> R(i), m |-> R(0), e |-> R(1)]]

ProfileRegister(eos, o, b) ==
  LET cons == [i \in Cells |-> ProfileCell(o, b, i)]
  IN [cons |-> cons, prim |-> [i \in Cells |-> PrimOfCell(eos, cons[i])],
      flux |-> StaleFlux]

\* the registers of block b at the start of a step: base holds the profile, in
\* sync; u1 is what the previous step left (with rkl2 the copy of base made by its
\* last copy-out) or another state; MY0 and Yjm2 are zero
InitBlock(eos, o, u1, b) ==
  [base |-> ProfileRegister(eos, o, b),
   u1 |-> IF u1 = "copy" THEN ProfileRegister(eos, o, b)
          ELSE ProfileRegister(eos, o + 2, b),
   MY0 |-> [cons |-> [i \in Cells |-> Zero3]],
   Yjm2 |-> [cons |-> [i \in Cells |-> Zero3]]]

\* the task lists a task can be in: list 0 of the single-list region of the c_h
\* chain, list i of block or partition i in every other region
Lanes == 0..NumBlocks
Lane(t) == IF t.name = "CalculateGlobalMinDx" THEN 0 ELSE t.blk

NoTask == [name |-> "", r |-> "", j |-> 0, changed |-> {}]
NoSts == [on |-> FALSE, sync0 |-> FALSE, y0 |-> << >>, my0_writes |-> 0, runs |-> 0]

InitDriver ==
  /\ ini = IniIdle /\ stg = StgIdle /\ est = EstIdle /\ AuxIdle
  /\ cfg \in DriverConfigs
  /\ \E x \in IF cfg.calc_c_h THEN {RealMax, StaleMinDx} ELSE {RealMax} :
       pkg = [mindx |-> x, dt_hyp |-> cfg.dt,
              dt_diff |-> EstimateConductionTimestep(cfg), c_h |-> R(0)]
  /\ \E o \in ProfileShifts, u1 \in {"copy", "other"} :
       reg = [b \in Blocks |-> InitBlock(cfg.eos, o, u1, b)]
  /\ bnd = [b \in Blocks |-> [r \in {"base", "u1"} |->
              [recv |-> FALSE, inL |-> NoBuffer, inR |-> NoBuffer]]]
  /\ tc = [stage |-> 0, regions |-> << >>, cur |-> 1, done |-> {}]
  /\ hst = [sts |-> << >>, reads |-> {}, exec |-> {}, log |-> [l \in Lanes |-> << >>],
            last |-> [b \in Blocks |-> NoTask],
            run |-> [b \in Blocks |-> NoSts]]

\* regions whose task lists are all empty complete at once
RECURSIVE SkipEmpty(_, _)
SkipEmpty(regions, n) ==
  IF n > Len(regions) THEN n
  ELSE IF \E l \in DOMAIN regions[n] : regions[n][l] # << >> THEN n
  ELSE SkipEmpty(regions, n + 1)

\* the collection of a stage as the driver hands it to Execute: the first region
\* that holds a task is the one being executed
Built(stage) ==
  LET regions == MakeTaskCollection(cfg, pkg.dt_diff, stage)
  IN [stage |-> stage, regions |-> regions, cur |-> SkipEmpty(regions, 1), done |-> {}]

\* the driver's stage loop: MakeTaskCollection(blocks, stage) once the collection
\* of the previous stage has been executed; hst.sts records the STS sequences added.
\* meshblock_data.Add of "u1", "MY0" and "Yjm2" is a no-op for a register that
\* exists: the registers are part of the initial state.
BuildStage ==
  /\ tc.cur > Len(tc.regions)
  /\ tc.stage < cfg.nstages
  /\ LET stage == tc.stage + 1
         parts == MakeTaskCollectionParts(cfg, pkg.dt_diff, stage)
         StsRecord(where, seq, before, tau) ==
           IF seq = << >> THEN << >>
           ELSE << [where |-> where, stage |-> stage, tau |-> tau,
                    s_rkl |-> StageCount(tau, pkg.dt_diff),
                    first |-> before + 1, last |-> before + Len(seq),
                    regions |-> seq] >>
     IN /\ tc' = Built(stage)
        /\ hst' = [hst EXCEPT !.sts =
                     @ \o StsRecord("pre", parts.pre_sts, Len(parts.head),
                                    PreStsTau(cfg.dt))
                       \o StsRecord("post", parts.post_sts,
                                    Len(parts.head) + Len(parts.pre_sts) + Len(parts.hydro),
                                    PostStsTau(cfg.dt))]
  /\ UNCHANGED <<ini, stg, est, cfg, pkg, reg, bnd, aux>>

\* task k of list l of the region being executed
TaskAt(l, k) == tc.regions[tc.cur][l][k]

\* a task can run once the task it depends on is done; ReceiveBoundaryBuffers
\* stays incomplete until the buffers have arrived
CanRun(l, k) ==
  LET t == TaskAt(l, k)
  IN /\ <<l, k>> \notin tc.done
     /\ t.dep = 0 \/ <<l, t.dep>> \in tc.done
     /\ t.name = "ReceiveBoundaryBuffers" => BuffersArrived(bnd, t.blk, t.r)

\* a task list offers its tasks in the order they were added
RunnableAnyOrder(l, k) == CanRun(l, k)
Runnable(l, k) == CanRun(l, k) /\ \A q \in 1..(k - 1) : ~CanRun(l, q)

\* the tasks of the current region that run callable name next
Ready(name) ==
  IF tc.cur > Len(tc.regions) THEN {}
  ELSE { id \in UNION { {l} \X DOMAIN tc.regions[tc.cur][l] : l \in DOMAIN tc.regions[tc.cur] } :
           TaskAt(id[1], id[2]).name = name /\ Runnable(id[1], id[2]) }

PrimReaders == {"CalcDiffFluxes", "CalcFlux", "EstimateTimestep"}

\* the fields of the registers of a block that differ between two states
Changed(old, new) ==
  { f \in { <<"base", "cons">>, <<"base", "prim">>, <<"base", "flux">>,
            <<"u1", "cons">>, <<"u1", "prim">>, <<"u1", "flux">>,
            <<"MY0", "cons">>, <<"Yjm2", "cons">> } :
      old[f[1]][f[2]] # new[f[1]][f[2]] }

\* the history after task t has turned the registers into nreg; hst.log is the
\* order in which the tasks of each list completed
Record(t, nreg) ==
  LET b == t.blk
      ch == IF b = 0 THEN {} ELSE Changed(reg[b], nreg[b])
      run == hst.run[b]
  IN [sts |-> hst.sts,
      log |-> [hst.log EXCEPT ![Lane(t)] =
                 Append(@, [stage |-> tc.stage, name |-> t.name, blk |-> b, r |-> t.r])],
      exec |-> hst.exec \cup { [stage |-> tc.stage, name |-> t.name, blk |-> b, r |-> t.r] },
      reads |-> IF t.name \in PrimReaders
                THEN hst.reads \cup
                       { [name |-> t.name, r |-> t.r, j |-> t.j, stage |-> tc.stage,
                          sync |-> InSync(cfg.eos, reg[b][t.r]),
                          ghosts |-> GhostsCurrent(reg, b, t.r, "prim")] }
                ELSE hst.reads,
      last |-> IF b = 0 THEN hst.last
               ELSE [hst.last EXCEPT ![b] =
                       [name |-> t.name, r |-> t.r, j |-> t.j, changed |-> ch]],
      run |-> IF b = 0 THEN hst.run
              ELSE [hst.run EXCEPT ![b] =
                 IF t.name = "CopyConsToYjm1"
                 THEN [on |-> TRUE, sync0 |-> InSync(cfg.eos, reg[b].base),
                       y0 |-> reg[b].base.cons, my0_writes |-> 0, runs |-> run.runs]
                 ELSE IF t.name = "CopyOut"
                 THEN [run EXCEPT !.on = FALSE, !.runs = IF @ < 2 THEN @ + 1 ELSE @]
                 ELSE IF t.name = "FluxDivergence" \/ <<"MY0", "cons">> \in ch
                 THEN [run EXCEPT !.my0_writes = @ + 1]
                 ELSE run]]

\* task id of the current region completes with the given package parameters,
\* registers and buffers; the region is left once all its tasks are done
Executed(id) ==
  LET done == tc.done \cup {id}
      all == \A l \in DOMAIN tc.regions[tc.cur] :
               \A k \in DOMAIN tc.regions[tc.cur][l] : <<l, k>> \in done
  IN IF all THEN [tc EXCEPT !.cur = SkipEmpty(tc.regions, tc.cur + 1), !.done = {}]
     ELSE [tc EXCEPT !.done = done]
Finish(id, npkg, nreg, nbnd) ==
  /\ pkg' = npkg
  /\ reg' = nreg
  /\ bnd' = nbnd
  /\ tc' = Executed(id)
  /\ hst' = Record(TaskAt(id[1], id[2]), nreg)
  /\ UNCHANGED <<ini, stg, est, cfg, aux>>

\* the task behind an id, and the registers with block b replaced
Tk(id) == TaskAt(id[1], id[2])
With(b, nb) == [reg EXCEPT ![b] = nb]

\* ---- the tasks of AddSTSTasks ----
DoCopyConsToYjm1 ==
  \E id \in Ready("CopyConsToYjm1") :
    Finish(id, pkg, With(Tk(id).blk, CopyConsToYjm1(reg[Tk(id).blk])), bnd)
DoResetFluxes ==
  \E id \in Ready("ResetFluxes") :
    LET t == Tk(id)
    IN Finish(id, pkg, With(t.blk, [reg[t.blk] EXCEPT ![t.r] = ResetFluxes(@)]), bnd)
DoCalcDiffFluxes ==
  \E id \in Ready("CalcDiffFluxes") :
    LET t == Tk(id)
    IN Finish(id, pkg, With(t.blk, [reg[t.blk] EXCEPT ![t.r] = CalcDiffFluxes(cfg, @)]), bnd)
DoFluxDivergence ==
  \E id \in Ready("FluxDivergence") :
    LET t == Tk(id)
        b == reg[t.blk]
    IN Finish(id, pkg, With(t.blk, [b EXCEPT !.MY0 = FluxDivergence(cfg.dx, b[t.r], @)]), bnd)
DoRKL2Step ==
  \E id \in Ready("RKL2Step") :
    LET t == Tk(id)
    IN Finish(id, pkg, With(t.blk, RKL2Step(reg[t.blk], t.j, t.s, t.tau, cfg.dx)), bnd)
DoFillDerived ==
  \E id \in Ready("FillDerived") :
    LET t == Tk(id)
    IN Finish(id, pkg, With(t.blk, [reg[t.blk] EXCEPT ![t.r] = FillDerived(cfg, @)]), bnd)
DoCopyOut ==
  \E id \in Ready("CopyOut") :
    Finish(id, pkg, With(Tk(id).blk, CopyOut(reg[Tk(id).blk])), bnd)

\* ---- boundary communication (STS on u1, the stage on base) ----
DoStartReceiving ==
  \E id \in Ready("StartReceiving") :
    Finish(id, pkg, reg, StartReceiving(bnd, Tk(id).blk, Tk(id).r))
DoSendBoundaryBuffers ==
  \E id \in Ready("SendBoundaryBuffers") :
    Finish(id, pkg, reg, SendBoundaryBuffers(bnd, reg, Tk(id).blk, Tk(id).r))
DoReceiveBoundaryBuffers ==
  \E id \in Ready("ReceiveBoundaryBuffers") : Finish(id, pkg, reg, bnd)
DoSetBoundaries ==
  \E id \in Ready("SetBoundaries") :
    LET t == Tk(id)
    IN Finish(id, pkg,
              With(t.blk, [reg[t.blk] EXCEPT ![t.r] = SetBoundaries(bnd[t.blk][t.r], @)]),
              bnd)
DoClearBoundary ==
  \E id \in Ready("ClearBoundary") :
    Finish(id, pkg, reg, ClearBoundary(bnd, Tk(id).blk, Tk(id).r))

\* ---- the c_h chain ----
DoResetMinDx ==
  \E id \in Ready("ResetMinDx") : Finish(id, [pkg EXCEPT !.mindx = RealMax], reg, bnd)
DoCalculateGlobalMinDx ==
  \E id \in Ready("CalculateGlobalMinDx") :
    LET mindx == RMin(RealMax, cfg.dx)
    IN Finish(id, IF RLt(mindx, pkg.mindx) THEN [pkg EXCEPT !.mindx = mindx] ELSE pkg,
              reg, bnd)
DoAllReduceMins ==
  \E id \in Ready("AllReduceMins") :
    Finish(id, [pkg EXCEPT !.mindx = RMin(@, cfg.remote.mindx),
                           !.dt_hyp = RMin(@, cfg.remote.dt_hyp)], reg, bnd)
DoUpdateCh ==
  \E id \in Ready("UpdateCh") :
    Finish(id, [pkg EXCEPT !.c_h = RDiv(RMul(cfg.cfl, pkg.mindx), pkg.dt_hyp)], reg, bnd)

\* ---- the tasks of the stage ----
\* no source term is enrolled: the three source tasks leave the data as they are
DoAddSplitSourcesStrang ==
  \E id \in Ready("AddSplitSourcesStrang") : Finish(id, pkg, reg, bnd)
DoAddUnsplitSources ==
  \E id \in Ready("AddUnsplitSources") : Finish(id, pkg, reg, bnd)
DoAddSplitSourcesFirstOrder ==
  \E id \in Ready("AddSplitSourcesFirstOrder") : Finish(id, pkg, reg, bnd)
DoInitU1 ==
  \E id \in Ready("InitU1") :
    Finish(id, pkg,
           With(Tk(id).blk, InitU1(reg[Tk(id).blk], cfg.first_order_flux_correct)), bnd)
\* const auto flux_str = (stage == 1) ? "flux_first_stage" : "flux_other_stage"
CalcFluxFun(c, stage) == IF stage = 1 THEN c.flux_first_stage ELSE c.flux_other_stage
DoCalcFlux ==
  \E id \in Ready("CalcFlux") :
    LET t == Tk(id)
        calc_flux_fun == CalcFluxFun(cfg, tc.stage)
    IN Finish(id, pkg,
              With(t.blk, [reg[t.blk] EXCEPT ![t.r] = HydroFlux(calc_flux_fun, cfg.eos, @)]),
              bnd)
\* the correction function is not the driver's: it is taken to leave the fluxes
\* as calc_flux_fun wrote them
DoFirstOrderFluxCorrect ==
  \E id \in Ready("FirstOrderFluxCorrect") : Finish(id, pkg, reg, bnd)
\* all blocks are on one level: nothing to correct, nothing to prolongate; the
\* boundaries are periodic
DoSendFluxCorrection ==
  \E id \in Ready("SendFluxCorrection") : Finish(id, pkg, reg, bnd)
DoReceiveFluxCorrection ==
  \E id \in Ready("ReceiveFluxCorrection") : Finish(id, pkg, reg, bnd)
DoProlongateBoundaries ==
  \E id \in Ready("ProlongateBoundaries") : Finish(id, pkg, reg, bnd)
DoApplyBoundaryConditions ==
  \E id \in Ready("ApplyBoundaryConditions") : Finish(id, pkg, reg, bnd)
DoUpdateWithFluxDivergence ==
  \E id \in Ready("UpdateWithFluxDivergence") :
    Finish(id, pkg,
           With(Tk(id).blk,
                UpdateWithFluxDivergence(reg[Tk(id).blk], cfg.gam0[tc.stage],
                                         cfg.gam1[tc.stage],
                                         RMul(cfg.beta[tc.stage], cfg.dt), cfg.dx)),
           bnd)
\* the new timestep: the conduction limit is stored in dt_diff; the hyperbolic
\* limit involves a square root and is one of DtHypOutcomes
DtHypOutcomes == { Rat(1, 2), Rat(1, 4) }
DoEstimateTimestep ==
  \E id \in Ready("EstimateTimestep"), h \in DtHypOutcomes :
    Finish(id, [pkg EXCEPT !.dt_hyp = h, !.dt_diff = EstimateConductionTimestep(cfg)],
           reg, bnd)
DoTag == \E id \in Ready("Tag") : Finish(id, pkg, reg, bnd)

Next ==
  \/ BuildStage
  \/ DoCopyConsToYjm1 \/ DoResetFluxes \/ DoCalcDiffFluxes \/ DoFluxDivergence
  \/ DoRKL2Step \/ DoFillDerived \/ DoCopyOut
  \/ DoStartReceiving \/ DoSendBoundaryBuffers \/ DoReceiveBoundaryBuffers
  \/ DoSetBoundaries \/ DoClearBoundary
  \/ DoResetMinDx \/ DoCalculateGlobalMinDx \/ DoAllReduceMins \/ DoUpdateCh
  \/ DoAddSplitSourcesStrang \/ DoAddUnsplitSources \/ DoAddSplitSourcesFirstOrder
  \/ DoInitU1 \/ DoCalcFlux \/ DoFirstOrderFluxCorrect
  \/ DoSendFluxCorrection \/ DoReceiveFluxCorrection
  \/ DoProlongateBoundaries \/ DoApplyBoundaryConditions
  \/ DoUpdateWithFluxDivergence \/ DoEstimateTimestep \/ DoTag

Spec == InitDriver /\ [][Next]_vars

(***************************************************************************)
(* Claims about the stage count                                            *)
(***************************************************************************)
\* ceil(0.5 * (sqrt(a) - 1)): the smallest n >= 0 with (2n + 1)^2 >= a
RECURSIVE CeilHalfSqrtM1From(_, _)
CeilHalfSqrtM1From(n, a) ==
  IF (2 * n + 1) * (2 * n + 1) * a[2] >= a[1] THEN n
  ELSE CeilHalfSqrtM1From(n + 1, a)

\* the stage count as the specification words it
DocumentedStageCount(tau, mindt_diff) ==
  LET s == CeilHalfSqrtM1From(0,
             RAdd(R(9), RMul(R(16), StsRatio(tau, mindt_diff)))) + 1
  IN IF s % 2 = 0 THEN s + 1 ELSE s

\* C5 (as claimed): for tau > 0 and dt_diff > 0 the number of sub-stages is
\* ceil(0.5*(sqrt(9 + 16*ratio) - 1)) + 1 rounded up to odd, ratio = 2*tau/dt_diff.
C5_AsClaimed ==
  stg.pc = "done" => stg.s_rkl = DocumentedStageCount(stg.tau, stg.mindt_diff)

\* C5 (amended): the number of sub-stages is b rounded up to odd, where b - 1 is
\* the largest integer n with (2n + 1)^2 <= 9 + 16*tau/dt_diff, that is
\* b = floor(0.5*(sqrt(9 + 16*tau/dt_diff) - 1)) + 1: the root is taken of
\* 9 + 8*ratio and the value is truncated, not rounded up.
C5_StageCountFormula ==
  stg.pc = "done" =>
    LET x4 == RMul(R(4), RDiv(stg.tau, stg.mindt_diff))
        b == IF stg.s_rkl - 1 >= 2 /\ RLt(x4, R(W1Den(stg.s_rkl - 1)))
             THEN stg.s_rkl - 1 ELSE stg.s_rkl
    IN /\ stg.s_rkl % 2 = 1
       /\ b % 2 = 0 <=> stg.s_rkl = b + 1
       /\ RLe(R(W1Den(b - 1)), x4)
       /\ RLt(x4, R(W1Den(b)))

C5_Witness ==
  /\ stg.pc = "done"
  /\ stg.s_rkl = 5
  /\ DocumentedStageCount(stg.tau, stg.mindt_diff) = 7

\* C6: the stage count is odd for all positive tau and dt_diff, is 3 (the smallest
\* value it ever takes) whenever ratio = 2*tau/dt_diff <= 1, and is never 1, so
\* the denominator s*s + s - 2 of w1 is never zero.
C6_StageCountOddMin ==
  stg.pc = "done" =>
    /\ stg.s_rkl % 2 = 1
    /\ stg.s_rkl >= 3
    /\ W1Den(stg.s_rkl) # 0
    /\ RLe(StsRatio(stg.tau, stg.mindt_diff), R(1)) => stg.s_rkl = 3

C6_Witness ==
  /\ stg.pc = "done"
  /\ RLe(StsRatio(stg.tau, stg.mindt_diff), R(1))
  /\ stg.s_rkl = 3

(***************************************************************************)
(* Claims about the driver and the super-time-stepping sequence            *)
(***************************************************************************)
\* the sum of a sequence of reals
RECURSIVE RSum(_)
RSum(q) == IF q = << >> THEN R(0) ELSE RAdd(Head(q), RSum(Tail(q)))

\* the sum over the interior cells of block b of dx * field v of register r
InteriorSum(b, r, v) ==
  RSum([k \in 1..BlockNx |-> RMul(cfg.dx, reg[b][r].cons[IbS + k - 1][v])])

\* all tasks of a task collection, with their list and position
TasksOf(regions) ==
  UNION { UNION { { [n |-> n, l |-> l, k |-> k, t |-> regions[n][l][k]] :
                      k \in DOMAIN regions[n][l] } :
                  l \in DOMAIN regions[n] } :
          n \in DOMAIN regions }

\* C2: whenever a task that reads the primitives of a register runs (CalcDiffFluxes
\* on base or u1, the stage flux calculation, EstimateTimestep), the primitives of
\* that register are the EOS conversion of its current conserved variables, also
\* for Yjm1 at sub-stage j = 1.
C2_PrimsInSyncWhenRead == \A x \in hst.reads : x.sync

\* the reads that find stale primitives are those of CalcDiffFluxes on u1 at j = 1
C2_StaleOnlyAtFirstSubStage ==
  \A x \in hst.reads : ~x.sync => (x.name = "CalcDiffFluxes" /\ x.r = "u1" /\ x.j = 1)

\* C3: during one STS sequence, from its first task to the copy-back, the conserved
\* variables of Y0 (base) are not written, MY0 is written exactly once, by the
\* FluxDivergence of Y0, and RKL2Step changes only the conserved variables of Yjm1
\* (u1) and Yjm2.
C3_StsFrame ==
  \A b \in Blocks :
    /\ hst.run[b].on => reg[b].base.cons = hst.run[b].y0
    /\ hst.run[b].on => hst.run[b].my0_writes <= 1
    /\ (hst.run[b].on /\ hst.last[b].name # "FluxDivergence")
         => <<"MY0", "cons">> \notin hst.last[b].changed
    /\ (hst.last[b].j >= 1 \/ hst.last[b].name = "CopyOut") => hst.run[b].my0_writes = 1
    /\ hst.last[b].name = "RKL2Step"
         => hst.last[b].changed \subseteq { <<"u1", "cons">>, <<"Yjm2", "cons">> }

\* the last sub-stage of a sequence has run on a block: Yjm1 and Yjm2 were both
\* changed, Y0 still holds the state the sequence started from and MY0 its divergence
C3_Witness ==
  \E b \in Blocks :
    /\ hst.run[b].on
    /\ hst.last[b].name = "RKL2Step" /\ hst.last[b].j = 3
    /\ hst.last[b].changed = { <<"u1", "cons">>, <<"Yjm2", "cons">> }
    /\ reg[b].u1.cons # reg[b].base.cons
    /\ reg[b].MY0.cons # [i \in Cells |-> Zero3]
    /\ hst.run[b].my0_writes = 1

\* the boundary exchange of the stage before x.stage is complete on every block
ExchangeDone(stage) ==
  \A b \in Blocks :
    \A nm \in {"SendBoundaryBuffers", "ReceiveBoundaryBuffers", "SetBoundaries"} :
      [stage |-> stage, name |-> nm, blk |-> b, r |-> "base"] \in hst.exec

\* send -> receive -> set are explicit edges inside their task list
ExchangeChained(regions) ==
  \A x \in TasksOf(regions) :
    x.t.name = "SetBoundaries" =>
      /\ x.t.dep = x.k - 1
      /\ regions[x.n][x.l][x.k - 1].name = "ReceiveBoundaryBuffers"
      /\ regions[x.n][x.l][x.k - 1].dep = x.k - 2
      /\ regions[x.n][x.l][x.k - 2].name = "SendBoundaryBuffers"

C4_Ordering ==
  /\ \A x \in hst.exec : (x.name = "CalcFlux" /\ x.stage >= 2) => ExchangeDone(x.stage - 1)
  /\ \A x \in hst.reads : (x.name = "CalcFlux" /\ x.stage >= 2) => x.ghosts

\* C4 as stated: the ordering holds and the flux calculation of a stage after the
\* first carries an explicit dependency edge.
C4_AsClaimed ==
  /\ C4_Ordering
  /\ \A x \in TasksOf(tc.regions) : (x.t.name = "CalcFlux" /\ tc.stage >= 2) => x.t.dep # 0

\* C4: for every block and stage n, the boundary exchange of stage n (send, then
\* receive, then set) has completed on all blocks, and the ghost cells hold the
\* neighbours' data, before the flux calculation of stage n + 1 runs; the flux
\* calculation itself is added without a dependency (TaskID none): it is ordered
\* after the exchange because it belongs to a later task collection, while send ->
\* receive -> set are chained by dependencies.
C4_ExchangeBeforeNextFlux ==
  /\ C4_Ordering
  /\ ExchangeChained(tc.regions)
  /\ \A x \in TasksOf(tc.regions) : x.t.name = "CalcFlux" => x.t.dep = 0

\* the flux calculation of stage 2 has run on a block whose ghost cells the
\* stage-1 exchange changed
C4_Witness ==
  \E x \in hst.reads :
    /\ x.name = "CalcFlux" /\ x.stage = 2 /\ x.ghosts
    /\ \E b \in Blocks :
         /\ [stage |-> 2, name |-> "CalcFlux", blk |-> b, r |-> "base"] \in hst.exec
         /\ reg[b].base.cons[0] # reg[b].u1.cons[0]

\* in the regions of an STS sequence every sub-stage j = 1..s has, in the task
\* list of every partition, an RKL2Step with arguments j, s and tau followed by
\* send -> receive -> set on u1, each depending on the task before it
ExchangeAfterEverySubStage(regions, s_rkl, tau) ==
  \A j \in 1..s_rkl : \A b \in Blocks :
    \E x \in TasksOf(regions) :
      LET list == regions[x.n][x.l]
          Follows(q, nm) ==
            /\ x.k + q \in DOMAIN list
            /\ list[x.k + q].name = nm /\ list[x.k + q].r = "u1"
            /\ list[x.k + q].dep = x.k + q - 1
      IN /\ x.t.name = "RKL2Step" /\ x.t.blk = b
         /\ x.t.j = j /\ x.t.s = s_rkl /\ x.t.tau = tau
         /\ Follows(1, "SendBoundaryBuffers")
         /\ Follows(2, "ReceiveBoundaryBuffers")
         /\ Follows(3, "SetBoundaries")

\* C7: within one timestep the STS sequence added before the hydro update (stage 1)
\* and the one added after it (last stage) are the same sequence of tasks, built
\* with the same tau = dt/2 and the same number of sub-stages, with a ghost-cell
\* exchange after every sub-stage; with a single-stage integrator both are part
\* of the same task collection, the first before the flux-divergence update and
\* the second after it.
C7_PrePostStsSame ==
  \A i \in DOMAIN hst.sts : \A k \in DOMAIN hst.sts :
    LET a == hst.sts[i]
        c == hst.sts[k]
    IN /\ a.tau = RMul(Rat(1, 2), cfg.dt)
       /\ a.s_rkl = c.s_rkl
       /\ a.regions = c.regions
       /\ ExchangeAfterEverySubStage(a.regions, a.s_rkl, a.tau)
       /\ (i < k) => (a.where = "pre" /\ c.where = "post"
                      /\ a.stage = 1 /\ c.stage = cfg.nstages)
       /\ (i < k /\ cfg.nstages = 1) =>
            /\ tc.stage = 1
            /\ SubSeq(tc.regions, a.first, a.last) = a.regions
            /\ SubSeq(tc.regions, c.first, c.last) = c.regions
            /\ \E x \in TasksOf(tc.regions) :
                 /\ x.t.name = "UpdateWithFluxDivergence"
                 /\ a.last < x.n /\ x.n < c.first

\* a single-stage step with rkl2 in which both sequences have been built and run
C7_Witness ==
  /\ cfg.nstages = 1
  /\ Len(hst.sts) = 2
  /\ hst.sts[1].s_rkl = 3
  /\ \A b \in Blocks : hst.run[b].runs = 2

\* C8: if the base register is in sync when an STS sequence starts, then after the
\* copy-back, the last task of the sequence, the conserved variables of base are
\* those of Yjm1 (u1) after the last sub-stage and the primitives of base are the
\* EOS conversion of those conserved variables.
C8_StsResultInBase ==
  \A b \in Blocks :
    (hst.last[b].name = "CopyOut" /\ hst.run[b].sync0) =>
      /\ reg[b].base.cons = reg[b].u1.cons
      /\ InSync(cfg.eos, reg[b].base)

\* the copy-back of the post-hydro sequence has run on a block whose state the
\* sequence changed
C8_Witness ==
  \E b \in Blocks :
    /\ hst.last[b].name = "CopyOut" /\ hst.run[b].sync0
    /\ hst.run[b].runs = 2
    /\ reg[b].base.cons # hst.run[b].y0

\* C9: conduction is discretely conservative.  After the conduction fluxes of Y0
\* and their divergence MY0 have been computed on a block, every interface
\* start..end+1 carries one flux, -kappa * denf * dTdx in the energy component and
\* zero in the others, and the interior sum of dx * MY0 is the flux through the
\* first interface minus the flux through the last one; over all blocks of the
\* periodic mesh the sums cancel; the first RKL2 sub-stage changes the energy of a
\* block by b_1 * w1 * tau times that net flux.
C9_ConductionConservative ==
  /\ \A b \in Blocks :
       LET F == reg[b].base.flux
           net == RSub(F[IbS].e, F[IbE + 1].e)
           st == hst.sts[Len(hst.sts)]
       IN /\ hst.last[b].name = "FluxDivergence" =>
               /\ \A i \in IbS..(IbE + 1) :
                    F[i] = [d |-> R(0), m |-> R(0),
                            e |-> RNeg(HeatFluxTerm(cfg.kappa, cfg.dx, reg[b].base.prim, i))]
               /\ InteriorSum(b, "MY0", "e") = net
               /\ InteriorSum(b, "MY0", "d") = R(0)
               /\ InteriorSum(b, "MY0", "m") = R(0)
          /\ (hst.last[b].name = "RKL2Step" /\ hst.last[b].j = 1) =>
               RSub(InteriorSum(b, "u1", "e"), InteriorSum(b, "base", "e"))
                 = RMul(RMul(RMul(Rat(1, 3), Rat(4, W1Den(st.s_rkl))), st.tau), net)
  /\ (\A b \in Blocks : hst.last[b].name = "FluxDivergence") =>
       RSum([b \in Blocks |-> InteriorSum(b, "MY0", "e")]) = R(0)

\* the divergence has been computed on every block, with a net flux through the
\* outermost interfaces of a block and heat flowing through an inner interface
C9_Witness ==
  /\ \A b \in Blocks : hst.last[b].name = "FluxDivergence"
  /\ \E b \in Blocks :
       /\ reg[b].base.flux[IbS].e # reg[b].base.flux[IbE + 1].e
       /\ reg[b].base.flux[IbS + 1].e # R(0)
       /\ InteriorSum(b, "MY0", "e") # R(0)

(***************************************************************************)
(* Thermal conduction: diffusivity, timestep and general flux              *)
(* (conduction.cpp:24-175, 255-478)                                        *)
(***************************************************************************)
\* the regularisation constant of main.hpp, scaled to the model's number range
TINY_NUMBER == Rat(1, 100)

\* enum class Conduction and enum class ConductionCoeff; "none" is the value
\* no routine has a branch for
ConductionModels == {"none", "isotropic", "anisotropic"}
ConductionCoeffs == {"none", "fixed", "spitzer"}

\* sqrt on rationals whose root is rational
RSqrt(a) == <<ISqrt(a[1]), ISqrt(a[2])>>

\* std::pow(x, 5. / 2.) and std::pow(x, 3.0 / 2.0), for x whose root is rational
Pow52(x) == LET r == RSqrt(x) IN RMul(RMul(RSqr(r), RSqr(r)), r)
Pow32(x) == LET r == RSqrt(x) IN RMul(RSqr(r), r)

\* the unsaturated Spitzer diffusivity and the saturated one of
\* ThermalDiffusivity::Get
ChiSpitzer(td, pres, rho) ==
  LET T == RDiv(RMul(td.mbar_over_kb, pres), rho)
      kappa == RMul(td.coeff, Pow52(T))
  IN RDiv(RMul(kappa, td.mbar_over_kb), rho)

ChiSatNoTiny(pres, rho, gradTmag) ==
  RDiv(RMul(Rat(34, 100), Pow32(RDiv(pres, rho))), gradTmag)

ChiSat(pres, rho, gradTmag) ==
  RDiv(RMul(Rat(34, 100), Pow32(RDiv(pres, rho))), RAdd(gradTmag, TINY_NUMBER))

\* Get without the saturation limit
GetUnsaturated(td, pres, rho, gradTmag) ==
  IF td.coeff_type = "fixed" THEN [status |-> "ok", val |-> td.coeff]
  ELSE IF td.coeff_type = "spitzer"
    THEN [status |-> "ok", val |-> ChiSpitzer(td, pres, rho)]
  ELSE [status |-> "ok", val |-> R(0)]

\* ThermalDiffusivity::Get; the result is [status, val]: the function has no
\* failing branch

GetResult(td, pres, rho, gradTmag) ==
  IF td.coeff_type = "fixed" THEN [status |-> "ok", val |-> td.coeff]
  ELSE IF td.coeff_type = "spitzer"
    THEN [status |-> "ok",
          val |-> RMin(ChiSpitzer(td, pres, rho), ChiSat(pres, rho, gradTmag))]
  ELSE [status |-> "ok", val |-> R(0)]

Get(td, pres, rho, gradTmag) == GetResult(td, pres, rho, gradTmag).val

\* the three directions, and the cell width coords.Dx(dir) of each
Dirs == 1..3
CndDx == <<R(1), R(2), R(1)>>

Dot3(a, b) == RAdd(RAdd(RMul(a[1], b[1]), RMul(a[2], b[2])), RMul(a[3], b[3]))
Mag3(a) == RSqrt(Dot3(a, a))

\* the smallest of dx_d^2 / denom[d] over the directions the mesh has, and min_dt
RECURSIVE MinOverDirs(_, _, _, _)
MinOverDirs(min_dt, ndim, d, denom) ==
  IF d > ndim THEN min_dt
  ELSE MinOverDirs(RMin(min_dt, RDiv(RSqr(CndDx[d]), denom[d])), ndim, d + 1, denom)

\* the reduction body of the isotropic, fixed-coefficient branch
MinDtIsoFixed(td, ndim, min_dt) ==
  LET thermal_diff_coeff == Get(td, R(0), R(0), R(0))
      denom == [d \in Dirs |-> RAdd(thermal_diff_coeff, TINY_NUMBER)]
  IN MinOverDirs(min_dt, ndim, 1, denom)

\* the centred temperature differences of a cell: the ones across directions the
\* mesh does not have are 0.0
CentredGrad(ndim, c) ==
  [d \in Dirs |-> IF d <= ndim THEN c.grad[d] ELSE R(0)]

\* the general branch without its early returns
MinDtGeneralNoZeroCheck(td, ndim, c, min_dt) ==
  LET thermal_diff_coeff == Get(td, c.p, c.rho, Mag3(CentredGrad(ndim, c)))
  IN MinOverDirs(min_dt, ndim, 1, [d \in Dirs |-> RAdd(thermal_diff_coeff, TINY_NUMBER)])

\* the reduction body of the general branch
MinDtGeneral(td, ndim, c, min_dt) ==
  LET dT == CentredGrad(ndim, c)
      gradTmag == Mag3(dT)
      thermal_diff_coeff == Get(td, c.p, c.rho, gradTmag)
      Bmag == Mag3(c.B)
      costheta == RDiv(RAbs(Dot3(c.B, dT)), RMul(Bmag, gradTmag))
      DenomIso == [d \in Dirs |-> thermal_diff_coeff]
      DenomAniso == [d \in Dirs |->
        RAdd(RMul(RDiv(RMul(thermal_diff_coeff, RAbs(c.B[d])), Bmag), costheta),
             TINY_NUMBER)]
  IN IF gradTmag = R(0) THEN min_dt
     ELSE IF td.type = "isotropic" THEN MinOverDirs(min_dt, ndim, 1, DenomIso)
     ELSE IF Bmag = R(0) THEN min_dt
     ELSE MinOverDirs(min_dt, ndim, 1, DenomAniso)

\* Kokkos::Min over the cells of the pack
RECURSIVE ReduceCells(_, _, _, _)
ReduceCells(td, ndim, cells, n) ==
  IF n = 0 THEN RealMax
  ELSE LET rest == ReduceCells(td, ndim, cells, n - 1)
       IN IF td.type = "isotropic" /\ td.coeff_type = "fixed"
            THEN MinDtIsoFixed(td, ndim, rest)
          ELSE MinDtGeneral(td, ndim, cells[n], rest)

\* EstimateConductionTimestep(md) over the cells given; the function has no
\* failing branch
EstimateConductionTimestepMd(td, ndim, cells) ==
  LET fac == IF ndim = 2 THEN Rat(1, 4) ELSE IF ndim = 3 THEN Rat(1, 6) ELSE Rat(1, 2)
  IN [status |-> "ok", val |-> RMul(fac, ReduceCells(td, ndim, cells, Len(cells)))]

\* ThermalFluxGeneral, the kernel of the sweep in direction dir at the face
\* between lo (the cell at i - 1, j - 1 or k - 1) and hi: the temperature
\* difference along dir is the one of the two cells, the ones across dir are the
\* monotonized differences lim, the one in z is 0.0 below three dimensions
FaceGrad(ndim, dir, lo, hi, lim) ==
  LET T_i == RDiv(hi.p, hi.rho)
      T_im1 == RDiv(lo.p, lo.rho)
  IN [d \in Dirs |-> IF d = dir THEN RDiv(RSub(T_i, T_im1), CndDx[dir])
                     ELSE IF d = 3 /\ ndim < 3 THEN R(0)
                     ELSE lim[d]]

FaceB(ndim, dir, lo, hi) ==
  [d \in Dirs |-> IF d = 3 /\ ndim < 3 /\ dir < 3 THEN R(0)
                  ELSE RMul(Rat(1, 2), RAdd(lo.B[d], hi.B[d]))]

ThermalFluxGeneralFace(td, ndim, dir, lo, hi, lim) ==
  LET dT == FaceGrad(ndim, dir, lo, hi, lim)
      B == FaceB(ndim, dir, lo, hi)
      B02 == RMax(Dot3(B, B), TINY_NUMBER)
      bDotGradT == Dot3(B, dT)
      flux_grad == IF td.type = "anisotropic" THEN RDiv(RMul(B[dir], bDotGradT), B02)
                   ELSE dT[dir]
      denf == RMul(Rat(1, 2), RAdd(hi.rho, lo.rho))
      gradTmag == Mag3(dT)
      thermal_diff_f == RMul(Rat(1, 2), RAdd(Get(td, hi.p, hi.rho, gradTmag),
                                             Get(td, lo.p, lo.rho, gradTmag)))
  IN IF td.type \notin {"anisotropic", "isotropic"}
       THEN [status |-> "fail", val |-> R(0)]
     ELSE [status |-> "ok", val |-> RNeg(RMul(RMul(thermal_diff_f, denf), flux_grad))]

\* the sweeps in the directions the mesh has, in order; a failing kernel ends the run
RECURSIVE ThermalFluxGeneralFrom(_, _, _, _, _, _)
ThermalFluxGeneralFrom(td, ndim, dir, lo, hi, lim) ==
  IF dir > ndim THEN [status |-> "ok", val |-> << >>]
  ELSE LET f == ThermalFluxGeneralFace(td, ndim, dir, lo, hi, lim)
           rest == ThermalFluxGeneralFrom(td, ndim, dir + 1, lo, hi, lim)
       IN IF f.status = "fail" THEN [status |-> "fail", val |-> << >>]
          ELSE [status |-> rest.status, val |-> <<f.val>> \o rest.val]

ThermalFluxGeneral(td, ndim, lo, hi, lim) ==
  ThermalFluxGeneralFrom(td, ndim, 1, lo, hi, lim)

\* inputs: a diffusivity object, the mesh dimension, two neighbouring cells with
\* primitives p, rho, B and centred temperature differences grad, the
\* monotonized differences at their face, and whether the pack the timestep is
\* reduced over holds both cells or the cell hi alone
Vec(a, b, c) == <<R(a), R(b), R(c)>>
CndCoeffs == { R(1), R(100) }
CndPrims == { <<R(1), R(1)>>, <<R(4), R(1)>> }
CndFields == { Vec(0, 0, 0), Vec(3, 4, 0), Vec(0, 0, 1) }
CndGrads == { Vec(0, 0, 0), Vec(3, 4, 0), Vec(0, 0, 2) }
CndLims == { Vec(0, 0, 0), Vec(4, 4, 0), Vec(1, 0, 4) }
CndCellsHi ==
  { [p |-> w[1], rho |-> w[2], B |-> b, grad |-> g] :
      w \in CndPrims, b \in CndFields, g \in CndGrads }
CndCellsLo == { c \in CndCellsHi : c.grad = Vec(3, 4, 0) /\ c.B # Vec(0, 0, 1) }
CndDiffusivities ==
  [ type : ConductionModels, coeff_type : ConductionCoeffs,
    coeff : CndCoeffs, mbar_over_kb : { R(1) } ]

CndPacks == {"hi", "both"}
PackCells(c) == IF c.pack = "hi" THEN <<c.hi>> ELSE <<c.lo, c.hi>>

\* the temperature differences at the face have a rational magnitude
FaceRational(ndim, lo, hi, lim) ==
  \A dir \in 1..ndim : LET dT == FaceGrad(ndim, dir, lo, hi, lim)
                       IN IsSquare(Dot3(dT, dT))

InitConduction ==
  /\ \E td \in CndDiffusivities, ndim \in Dirs, lo \in CndCellsLo, hi \in CndCellsHi,
        lim \in CndLims, pack \in CndPacks :
       /\ FaceRational(ndim, lo, hi, lim)
       /\ cnd = [pc |-> "start", td |-> td, ndim |-> ndim, lo |-> lo, hi |-> hi,
                 lim |-> lim, pack |-> pack, get |-> << >>, dt |-> << >>, flux |-> << >>]
  /\ ini = IniIdle /\ stg = StgIdle /\ est = EstIdle /\ DriverIdle
  /\ agn = AgnIdle /\ flx = FlxIdle /\ knl = KnlIdle

\* one evaluation of each routine on the inputs
Conduct ==
  /\ cnd.pc = "start"
  /\ cnd' = [cnd EXCEPT
       !.pc = "done",
       !.get = GetResult(cnd.td, cnd.hi.p, cnd.hi.rho, Mag3(CentredGrad(cnd.ndim, cnd.hi))),
       !.dt = EstimateConductionTimestepMd(cnd.td, cnd.ndim, PackCells(cnd)),
       !.flux = ThermalFluxGeneral(cnd.td, cnd.ndim, cnd.lo, cnd.hi, cnd.lim)]
  /\ UNCHANGED <<ini, stg, est, drv, agn, flx, knl>>

NextConduction == Conduct

SpecConduction == InitConduction /\ [][NextConduction]_vars

(***************************************************************************)
(* Claims about thermal conduction                                         *)
(***************************************************************************)
CndDone == cnd.pc = "done"
CndGradTmag == Mag3(CentredGrad(cnd.ndim, cnd.hi))
CndGradMags == { R(0), Rat(1, 2), R(1), R(2), R(3), R(5) }

\* C11 as stated: with the Spitzer coefficient Get returns the minimum of the
\* unsaturated diffusivity and 0.34 * (p/rho)^1.5 / gradT (no limit at gradT = 0)
C11_AsClaimed ==
  (CndDone /\ cnd.td.coeff_type = "spitzer") =>
    cnd.get.val = RMin(ChiSpitzer(cnd.td, cnd.hi.p, cnd.hi.rho),
                       ChiSatNoTiny(cnd.hi.p, cnd.hi.rho, CndGradTmag))

\* C11: with the Spitzer coefficient Get returns the minimum of the unsaturated
\* diffusivity and the saturated one regularised by TINY_NUMBER,
\* 0.34 * (p/rho)^1.5 / (gradT + TINY_NUMBER); the value never exceeds
\* 0.34 * (p/rho)^1.5 / gradT and does not grow with gradT
C11_SpitzerSaturation ==
  (CndDone /\ cnd.td.coeff_type = "spitzer") =>
    /\ cnd.get.status = "ok"
    /\ cnd.get.val = RMin(ChiSpitzer(cnd.td, cnd.hi.p, cnd.hi.rho),
                          ChiSat(cnd.hi.p, cnd.hi.rho, CndGradTmag))
    /\ RLe(cnd.get.val, ChiSatNoTiny(cnd.hi.p, cnd.hi.rho, CndGradTmag))
    /\ \A g \in CndGradMags :
         /\ RLe(CndGradTmag, g) =>
              RLe(Get(cnd.td, cnd.hi.p, cnd.hi.rho, g), cnd.get.val)
         /\ RLe(g, CndGradTmag) =>
              RLe(cnd.get.val, Get(cnd.td, cnd.hi.p, cnd.hi.rho, g))

\* a Spitzer diffusivity was evaluated at a non-zero gradient where the
\* saturation limit binds
C11_Witness ==
  /\ CndDone /\ cnd.td.coeff_type = "spitzer"
  /\ CndGradTmag # R(0)
  /\ RLt(cnd.get.val, ChiSpitzer(cnd.td, cnd.hi.p, cnd.hi.rho))

\* the selectors are ones the routines have branches for
CndRecognized == cnd.td.type # "none" /\ cnd.td.coeff_type # "none"
\* the cell hi has no temperature gradient, or (anisotropic model) no field
CndCellQuiet ==
  \/ CentredGrad(cnd.ndim, cnd.hi) = Vec(0, 0, 0)
  \/ cnd.td.type = "anisotropic" /\ cnd.hi.B = Vec(0, 0, 0)
\* the face of the sweep in direction dir has no temperature gradient, or
\* (anisotropic model) no field
CndFaceQuiet(dir) ==
  \/ FaceGrad(cnd.ndim, dir, cnd.lo, cnd.hi, cnd.lim) = Vec(0, 0, 0)
  \/ cnd.td.type = "anisotropic" /\ FaceB(cnd.ndim, dir, cnd.lo, cnd.hi) = Vec(0, 0, 0)
\* the timestep the pack gives without the cell hi
CndDtWithoutHi ==
  EstimateConductionTimestepMd(cnd.td, cnd.ndim,
                               IF cnd.pack = "hi" THEN << >> ELSE <<cnd.lo>>)

\* C12 as stated: for every conduction model and coefficient type a cell without
\* temperature gradient, or without field in the anisotropic model, adds nothing
\* to the flux, does not constrain the conduction timestep and raises no error
C12_AsClaimed ==
  (CndDone /\ CndRecognized) =>
    /\ CndCellQuiet => (cnd.dt.status = "ok" /\ cnd.dt.val = CndDtWithoutHi.val)
    /\ \A dir \in 1..cnd.ndim :
         CndFaceQuiet(dir) => (cnd.flux.status = "ok" /\ cnd.flux.val[dir] = R(0))

\* C12: a face without temperature gradient, or without field in the anisotropic
\* model, gets a flux contribution of exactly zero and no error; a cell without
\* temperature gradient or (anisotropic) without field does not constrain the
\* conduction timestep unless the model is isotropic with a fixed coefficient,
\* where every cell constrains it by dx^2 / (coeff + TINY_NUMBER) whatever its
\* gradient
C12_QuietCellIsNoOp ==
  (CndDone /\ CndRecognized) =>
    /\ (CndCellQuiet /\ ~(cnd.td.type = "isotropic" /\ cnd.td.coeff_type = "fixed"))
         => (cnd.dt.status = "ok" /\ cnd.dt.val = CndDtWithoutHi.val)
    /\ (cnd.td.type = "isotropic" /\ cnd.td.coeff_type = "fixed")
         => (cnd.dt.status = "ok" /\ RLt(cnd.dt.val, RealMax) /\
             cnd.dt.val = EstimateConductionTimestepMd(cnd.td, cnd.ndim, <<cnd.hi>>).val)
    /\ \A dir \in 1..cnd.ndim :
         CndFaceQuiet(dir) => (cnd.flux.status = "ok" /\ cnd.flux.val[dir] = R(0))

\* a cell without temperature gradient was reduced together with a cell that
\* constrains the timestep, in the general branch, and a face without
\* temperature gradient got its flux
C12_Witness ==
  /\ CndDone /\ CndRecognized /\ CndCellQuiet /\ cnd.pack = "both"
  /\ ~(cnd.td.type = "isotropic" /\ cnd.td.coeff_type = "fixed")
  /\ RLt(cnd.dt.val, RealMax)
  /\ \E dir \in 1..cnd.ndim : CndFaceQuiet(dir)

\* C13 as stated: Get, EstimateConductionTimestep and ThermalFluxGeneral abort on
\* a conduction model or coefficient type they have no branch for
C13_UnknownSelectorAborts ==
  CndDone =>
    /\ cnd.td.coeff_type = "none" => cnd.get.status = "fail"
    /\ ~CndRecognized => (cnd.dt.status = "fail" /\ cnd.flux.status = "fail")

\* what the code does: only ThermalFluxGeneral aborts, and only on the model
C13_OnlyFluxModelAborts ==
  CndDone =>
    /\ cnd.get.status = "ok" /\ cnd.dt.status = "ok"
    /\ cnd.flux.status = "fail" <=> cnd.td.type = "none"
    /\ cnd.td.coeff_type = "none" => cnd.get.val = R(0)

(***************************************************************************)
(* AGNFeedback::FeedbackSrcTerm (agn_feedback.cpp:51-190)                  *)
(***************************************************************************)
\* hydro_pkg->Param<Fluid>("fluid"); "other" is a value the dispatch has no branch for
Fluids == {"euler", "glmmhd", "other"}

\* units.speed_of_light() in code units
SpeedOfLight == R(2)
\* 1 / (4/3 pi thermal_radius^3) and 1 / (2 kinetic_jet_height pi kinetic_jet_radius^2):
\* positive numbers fixed by the geometry parameters
ThermalScalingFactor == R(3)
KineticScalingFactor == R(5)

\* AddDensityToConsAtFixedVel: mass added at the cell's velocity
AddDensityToConsAtFixedVel(density, cons) ==
  LET v1 == RDiv(cons.m1, cons.d)
  IN [cons EXCEPT !.d = RAdd(@, density),
                  !.m1 = RAdd(@, RMul(density, v1)),
                  !.e = RAdd(@, RMul(Rat(1, 2), RMul(density, RSqr(v1))))]

\* the kernel of the par_for on one cell; cell.in_sphere: r2 <= thermal_radius2,
\* cell.in_jet: inside the jet deposition volume, cell.sign_jet: which side of the disk;
\* m1 is the momentum along the jet axis
FeedbackCell(a, power, mass_rate, cons) ==
  LET thermal_power == RMul(power, a.thermal_fraction)
      thermal_feedback == RMul(RMul(thermal_power, ThermalScalingFactor), a.beta_dt)
      thermal_density_rate ==
        RMul(RMul(mass_rate, ThermalScalingFactor), a.thermal_fraction)
      kinetic_power == RMul(power, a.kinetic_fraction)
      kinetic_feedback == RMul(RMul(kinetic_power, KineticScalingFactor), a.beta_dt)
      kinetic_jet_total_mass == RMul(mass_rate, a.kinetic_fraction)
      kinetic_jet_density_rate == RMul(kinetic_jet_total_mass, KineticScalingFactor)
      kinetic_jet_velocity ==
        RSqrt(RDiv(RMul(R(2), kinetic_power), kinetic_jet_total_mass))
      heated ==
        IF RLt(R(0), thermal_power) /\ a.cell.in_sphere
          THEN AddDensityToConsAtFixedVel(thermal_density_rate,
                                          [cons EXCEPT !.e = RAdd(@, thermal_feedback)])
        ELSE cons
  IN IF RLt(R(0), kinetic_power) /\ a.cell.in_jet
       THEN [heated EXCEPT
               !.d = RAdd(@, RMul(kinetic_jet_density_rate, a.beta_dt)),
               !.m1 = RAdd(@, RMul(RMul(RMul(kinetic_jet_density_rate,
                                             R(a.cell.sign_jet)),
                                        kinetic_jet_velocity), a.beta_dt)),
               !.e = RAdd(@, kinetic_feedback)]
     ELSE heated

\* the templated FeedbackSrcTerm(md, beta_dt, tm, eos); tower is the list of calls
\* of magnetic_tower.PowerSrcTerm(magnetic_power, magnetic_mass_rate, ...)
FeedbackSrcTermEosNoCheck(a) ==
  LET c2 == RSqr(SpeedOfLight)
      power == RAdd(a.fixed_power, RMul(RMul(a.accretion_rate, a.efficiency), c2))
      mass_rate == IF a.efficiency = R(0) THEN R(0)
                   ELSE RDiv(power, RMul(a.efficiency, c2))
  IN IF power = R(0) \/ a.disabled
       THEN [status |-> "ok", cons |-> a.cons, tower |-> << >>]
     ELSE [status |-> "ok",
           cons |-> FeedbackCell(a, power, mass_rate, a.cons),
           tower |-> << <<RMul(power, a.magnetic_fraction),
                          RMul(mass_rate, a.magnetic_fraction)>> >>]

FeedbackSrcTermEos(a) ==
  LET c2 == RSqr(SpeedOfLight)
      power == RAdd(a.fixed_power, RMul(RMul(a.accretion_rate, a.efficiency), c2))
      mass_rate == IF a.efficiency = R(0) THEN R(0)
                   ELSE RDiv(power, RMul(a.efficiency, c2))
  IN IF power = R(0) \/ a.disabled
       THEN [status |-> "ok", cons |-> a.cons, tower |-> << >>]
     ELSE IF a.magnetic_fraction = R(0) /\ a.thermal_fraction = R(0)
             /\ a.kinetic_fraction = R(0)
       THEN [status |-> "fail: fractions are all zero", cons |-> a.cons, tower |-> << >>]
     ELSE [status |-> "ok",
           cons |-> FeedbackCell(a, power, mass_rate, a.cons),
           tower |-> << <<RMul(power, a.magnetic_fraction),
                          RMul(mass_rate, a.magnetic_fraction)>> >>]

\* FeedbackSrcTerm(md, beta_dt, tm): the dispatch on the fluid
FeedbackSrcTerm(a) ==
  IF a.fluid = "euler" THEN FeedbackSrcTermEos(a)
  ELSE IF a.fluid = "glmmhd" THEN FeedbackSrcTermEos(a)
  ELSE [status |-> "fail: Unknown EOS", cons |-> a.cons, tower |-> << >>]

\* inputs: the members read from the parameter input (efficiency > 0), the accretion
\* rate of the triggering, and one cell with its place relative to the feedback regions
AgnFractions == { R(0), Rat(1, 2) }
AgnInputs ==
  [ fluid : Fluids,
    fixed_power : { R(0), R(1) },
    efficiency : { Rat(1, 2) },
    accretion_rate : { R(0), R(1) },
    thermal_fraction : AgnFractions,
    kinetic_fraction : AgnFractions,
    magnetic_fraction : AgnFractions,
    disabled : BOOLEAN,
    beta_dt : { R(1) },
    cell : [ in_sphere : BOOLEAN, in_jet : BOOLEAN, sign_jet : {-1, 1} ],
    cons : { [d |-> R(1), m1 |-> R(2), e |-> R(7)] } ]

InitAgn ==
  /\ \E a \in AgnInputs : agn = [pc |-> "start", in |-> a, out |-> << >>]
  /\ ini = IniIdle /\ stg = StgIdle /\ est = EstIdle /\ DriverIdle
  /\ cnd = CndIdle /\ flx = FlxIdle /\ knl = KnlIdle

CallFeedbackSrcTerm ==
  /\ agn.pc = "start"
  /\ agn' = [agn EXCEPT !.pc = "done", !.out = FeedbackSrcTerm(agn.in)]
  /\ UNCHANGED <<ini, stg, est, drv, cnd, flx, knl>>

NextAgn == CallFeedbackSrcTerm

SpecAgn == InitAgn /\ [][NextAgn]_vars

(***************************************************************************)
(* Claims about the AGN feedback                                           *)
(***************************************************************************)
AgnDone == agn.pc = "done"
AgnPower ==
  RAdd(agn.in.fixed_power,
       RMul(RMul(agn.in.accretion_rate, agn.in.efficiency), RSqr(SpeedOfLight)))
AgnInactive == agn.in.disabled \/ AgnPower = R(0)
AgnNoFractions ==
  /\ agn.in.thermal_fraction = R(0) /\ agn.in.kinetic_fraction = R(0)
  /\ agn.in.magnetic_fraction = R(0)
AgnAborted == agn.out.status # "ok"
AgnUntouched == agn.out.cons = agn.in.cons /\ agn.out.tower = << >>

\* C14: FeedbackSrcTerm aborts when the feedback is active (not disabled, power
\* not zero) and the thermal, kinetic and magnetic fractions are all zero; when
\* the feedback is inactive (disabled or power zero) it returns without changing
\* any conserved variable; an unknown fluid type aborts
C14_FeedbackGuards ==
  AgnDone =>
    /\ agn.in.fluid = "other" => (AgnAborted /\ AgnUntouched)
    /\ (agn.in.fluid # "other" /\ AgnInactive) => (~AgnAborted /\ AgnUntouched)
    /\ (agn.in.fluid # "other" /\ ~AgnInactive /\ AgnNoFractions)
         => (AgnAborted /\ AgnUntouched)
    /\ (agn.in.fluid # "other" /\ ~AgnInactive /\ ~AgnNoFractions) => ~AgnAborted

\* an active feedback with all fractions zero was called and aborted
C14_Witness ==
  /\ AgnDone /\ agn.in.fluid = "euler" /\ ~AgnInactive /\ AgnNoFractions
  /\ agn.out.status = "fail: fractions are all zero"

\* an active feedback with a fraction set changed the cell
C14_WitnessActive ==
  /\ AgnDone /\ ~AgnAborted /\ agn.out.cons # agn.in.cons

(***************************************************************************)
(* Hydro::CalculateFluxes and Hydro::CalculateFluxesWScratch               *)
(* (hydro.cpp:145-405, recon/dc.cpp)                                       *)
(*                                                                         *)
(* One primitive variable on a block with FxNx interior cells and FxGhost  *)
(* ghost cells per direction, in one or two dimensions; the X3 sweep       *)
(* repeats the X2 sweep with the roles of j and k exchanged.               *)
(***************************************************************************)
FxGhost == 2
FxNx == 2
TeamSize == 2

FxN == FxNx + 2 * FxGhost
FxCols == 0..(FxN - 1)
FxRows(ndim) == IF ndim >= 2 THEN 0..(FxN - 1) ELSE {0}
\* ib.s, ib.e and jb.s, jb.e (IndexDomain::interior)
FxIs == FxGhost
FxIe == FxGhost + FxNx - 1
FxJs(ndim) == IF ndim >= 2 THEN FxGhost ELSE 0
FxJe(ndim) == IF ndim >= 2 THEN FxGhost + FxNx - 1 ELSE 0
\* jl, ju of the X1 sweep: one row more on each side when nx2 > 1
FxJl(ndim) == IF ndim >= 2 THEN FxJs(ndim) - 1 ELSE FxJs(ndim)
FxJu(ndim) == IF ndim >= 2 THEN FxJe(ndim) + 1 ELSE FxJe(ndim)

\* the faces a sweep fills: <<j, i>>
X1Range(ndim) == { <<j, i>> : j \in FxJl(ndim)..FxJu(ndim), i \in FxIs..(FxIe + 1) }
X2Range(ndim) ==
  IF ndim >= 2
    THEN { <<j, i>> : j \in FxJs(ndim)..(FxJe(ndim) + 1), i \in (FxIs - 1)..(FxIe + 1) }
  ELSE {}
X2RangeInterior(ndim) ==
  IF ndim >= 2
    THEN { <<j, i>> : j \in FxJs(ndim)..(FxJe(ndim) + 1), i \in FxIs..FxIe }
  ELSE {}

\* the limited slope of the piecewise-linear reconstruction (van Leer)
VanLeer(qm, q, qp) ==
  LET dql == RSub(q, qm)
      dqr == RSub(qp, q)
      dq2 == RMul(dql, dqr)
  IN IF RLt(R(0), dq2) THEN RDiv(RMul(R(2), dq2), RAdd(dql, dqr)) ELSE R(0)

\* the state a cell gives to its upper face (a left state) and to its lower face
\* (a right state) in direction dir: the cell value at stage 1 (donor cell), the
\* value extrapolated by half the limited slope otherwise (piecewise linear)
CellSlope(w, dir, j, i) ==
  IF dir = 1 THEN VanLeer(w[j][i - 1], w[j][i], w[j][i + 1])
  ELSE VanLeer(w[j - 1][i], w[j][i], w[j + 1][i])
UpperStateDonor(stage, w, dir, j, i) == w[j][i]
UpperState(stage, w, dir, j, i) ==
  IF stage = 1 THEN w[j][i]
  ELSE RAdd(w[j][i], RMul(Rat(1, 2), CellSlope(w, dir, j, i)))
LowerState(stage, w, dir, j, i) ==
  IF stage = 1 THEN w[j][i]
  ELSE RSub(w[j][i], RMul(Rat(1, 2), CellSlope(w, dir, j, i)))

\* the Riemann solver: a function of the two states only, kept uninterpreted
RiemannFlux(l, r) == <<"F", l, r>>

\* what an entry holds that the call has not written: a state and a flux that
\* differ from every state and flux the call computes
OldState == <<0, 0>>
OldFlux == <<"old", OldState, OldState>>

\* DonorCellX1KJI / PiecewiseLinearX1KJI and DonorCellX2KJI / PiecewiseLinearX2KJI:
\* wl and wr of the faces in range
ReconX1KJI(s, ndim) ==
  [s EXCEPT
     !.wl = [j \in FxRows(ndim) |-> [i \in FxCols |->
               IF <<j, i>> \in X1Range(ndim)
                 THEN UpperState(s.stage, s.w, 1, j, i - 1) ELSE s.wl[j][i]]],
     !.wr = [j \in FxRows(ndim) |-> [i \in FxCols |->
               IF <<j, i>> \in X1Range(ndim)
                 THEN LowerState(s.stage, s.w, 1, j, i) ELSE s.wr[j][i]]]]

\* a reconstruction in X2 that leaves out the ghost columns
ReconX2KJIInterior(s, ndim) ==
  [s EXCEPT
     !.wl = [j \in FxRows(ndim) |-> [i \in FxCols |->
               IF <<j, i>> \in X2RangeInterior(ndim)
                 THEN UpperState(s.stage, s.w, 2, j - 1, i) ELSE s.wl[j][i]]],
     !.wr = [j \in FxRows(ndim) |-> [i \in FxCols |->
               IF <<j, i>> \in X2RangeInterior(ndim)
                 THEN LowerState(s.stage, s.w, 2, j, i) ELSE s.wr[j][i]]]]

ReconX2KJI(s, ndim) ==
  [s EXCEPT
     !.wl = [j \in FxRows(ndim) |-> [i \in FxCols |->
               IF <<j, i>> \in X2Range(ndim)
                 THEN UpperState(s.stage, s.w, 2, j - 1, i) ELSE s.wl[j][i]]],
     !.wr = [j \in FxRows(ndim) |-> [i \in FxCols |->
               IF <<j, i>> \in X2Range(ndim)
                 THEN LowerState(s.stage, s.w, 2, j, i) ELSE s.wr[j][i]]]]

\* RiemannSolver(pmb, kl, ku, jl, ju, il, iu, ivx, wl, wr, flux, eos)
RiemannX1KJI(s, ndim) ==
  [s EXCEPT !.x1flux = [j \in FxRows(ndim) |-> [i \in FxCols |->
     IF <<j, i>> \in X1Range(ndim) THEN RiemannFlux(s.wl[j][i], s.wr[j][i])
     ELSE s.x1flux[j][i]]]]

RiemannX2KJI(s, ndim) ==
  [s EXCEPT !.x2flux = [j \in FxRows(ndim) |-> [i \in FxCols |->
     IF <<j, i>> \in X2Range(ndim) THEN RiemannFlux(s.wl[j][i], s.wr[j][i])
     ELSE s.x2flux[j][i]]]]

\* one step of CalculateFluxes: "RX1" reconstruct X, "SX1" Riemann X, "RX2", "SX2"
FluxStep(s, ndim, op) ==
  IF op = "RX1" THEN ReconX1KJI(s, ndim)
  ELSE IF op = "SX1" THEN RiemannX1KJI(s, ndim)
  ELSE IF op = "RX2" THEN ReconX2KJI(s, ndim)
  ELSE RiemannX2KJI(s, ndim)

RECURSIVE FluxSteps(_, _, _)
FluxSteps(s, ndim, ops) ==
  IF ops = << >> THEN s
  ELSE FluxSteps(FluxStep(s, ndim, Head(ops)), ndim, Tail(ops))

\* the steps of CalculateFluxes in program order
FluxProgram(ndim) ==
  IF ndim >= 2 THEN <<"RX1", "SX1", "RX2", "SX2">> ELSE <<"RX1", "SX1">>

CalculateFluxes(s, ndim) == FluxSteps(s, ndim, FluxProgram(ndim))

\* primitives of the block, ghost cells included, and the arrays before the call:
\* wl, wr and the flux arrays hold what earlier calls left
FxProfiles == {"ramp", "bump"}
PrimAt(p, j, i) ==
  IF p = "ramp" THEN R(i * i + 3 * j + i * j)
  ELSE R((((7 * i) + (5 * j)) % 4) * (i + 1) + (j * j))
FluxArrays(p, stage, ndim) ==
  [ stage |-> stage,
    w |-> [j \in FxRows(ndim) |-> [i \in FxCols |-> PrimAt(p, j, i)]],
    wl |-> [j \in FxRows(ndim) |-> [i \in FxCols |-> OldState]],
    wr |-> [j \in FxRows(ndim) |-> [i \in FxCols |-> OldState]],
    x1flux |-> [j \in FxRows(ndim) |-> [i \in FxCols |-> OldFlux]],
    x2flux |-> [j \in FxRows(ndim) |-> [i \in FxCols |-> OldFlux]] ]

\* CalculateFluxesWScratch: what every thread of a team executes, one list for
\* the whole call.  A team of the X1 sweep (one per row j) reconstructs into wl,
\* wr, waits at the barrier and solves; the team of the X2 sweep reconstructs
\* row jb.s - 1 into wl, wr and then, for every row j, reconstructs into wlb, wr,
\* waits, solves, waits and swaps wl and wlb.  "join" is the end of a team's
\* work, where the threads of the team meet before the scratch memory is reused.
ScratchOp(op, dir, row) == [op |-> op, dir |-> dir, row |-> row]

RECURSIVE X1Teams(_, _)
X1Teams(j, ju) ==
  IF j > ju THEN << >>
  ELSE << ScratchOp("recon", 1, j), ScratchOp("barrier", 1, j),
          ScratchOp("solve", 1, j), ScratchOp("join", 1, j) >> \o X1Teams(j + 1, ju)

RECURSIVE X2Rows(_, _)
X2Rows(j, ju) ==
  IF j > ju THEN << >>
  ELSE << ScratchOp("reconb", 2, j), ScratchOp("barrier", 2, j),
          ScratchOp("solve", 2, j), ScratchOp("barrier2", 2, j),
          ScratchOp("swap", 2, j) >> \o X2Rows(j + 1, ju)

X2Team(ndim) ==
  IF ndim >= 2
    THEN << ScratchOp("recon", 2, FxJs(ndim) - 1), ScratchOp("barrier", 2, FxJs(ndim) - 1) >>
         \o X2Rows(FxJs(ndim), FxJe(ndim) + 1)
         \o << ScratchOp("join", 2, FxJe(ndim) + 1) >>
  ELSE << >>

ScratchOps(ndim) == X1Teams(FxJl(ndim), FxJu(ndim)) \o X2Team(ndim)

\* the threads of a team and the indices of lo..hi a thread works on
Threads == 1..TeamSize
Mine(t, lo, hi) == { i \in lo..hi : (i - lo) % TeamSize = t - 1 }

\* the scratch pads: wl is the first allocation of the team's scratch memory, wr
\* the second, wlb the third; a thread's wl and wlb are handles on "A" and "B"
KeepHandle(h) == h
SwapHandle(h) == IF h = "A" THEN "B" ELSE "A"

\* member.team_barrier() at position p lets a thread pass when every thread of
\* the team has arrived
BarrierIgnored(p) == TRUE
BarrierOpen(p) == \A u \in Threads : flx.th[u].pos >= p

\* the flux functions of the package parameters: first order for the first
\* stage, second order for the others
FluxFunctions ==
  [flux_first_stage |-> "DonorCell", flux_other_stage |-> "PiecewiseLinear"]

\* inputs: the stages of an integrator of MaxFluxStage stages
MaxFluxStage == 3
FluxInputs ==
  [ variant : {"kji", "scratch"}, stage : 1..MaxFluxStage, ndim : {1, 2},
    profile : FxProfiles ]

InitFluxes ==
  /\ \E inp \in FluxInputs :
       flx = [pc |-> "run", variant |-> inp.variant, ndim |-> inp.ndim,
              fun |-> CalcFluxFun(FluxFunctions, inp.stage),
              profile |-> inp.profile,
              arr |-> FluxArrays(inp.profile, inp.stage, inp.ndim),
              kstep |-> 1,
              th |-> [t \in Threads |-> [pos |-> 1, h |-> "A"]],
              buf |-> [b \in {"A", "B", "R"} |-> [i \in FxCols |-> OldState]]]
  /\ ini = IniIdle /\ stg = StgIdle /\ est = EstIdle /\ DriverIdle
  /\ cnd = CndIdle /\ agn = AgnIdle /\ knl = KnlIdle

FxOthers == <<ini, stg, est, drv, cnd, agn, knl>>

\* CalculateFluxes: the next step of the program, and the return
KjiStep ==
  /\ flx.pc = "run" /\ flx.variant = "kji"
  /\ flx.kstep <= Len(FluxProgram(flx.ndim))
  /\ flx' = [flx EXCEPT !.arr = FluxStep(@, flx.ndim, FluxProgram(flx.ndim)[flx.kstep]),
                        !.kstep = @ + 1]
  /\ UNCHANGED FxOthers

KjiReturn ==
  /\ flx.pc = "run" /\ flx.variant = "kji"
  /\ flx.kstep > Len(FluxProgram(flx.ndim))
  /\ flx' = [flx EXCEPT !.pc = "done"]
  /\ UNCHANGED FxOthers

\* the operation thread t is at
AtOp(t, ops) ==
  /\ flx.pc = "run" /\ flx.variant = "scratch"
  /\ flx.th[t].pos <= Len(ScratchOps(flx.ndim))
  /\ ScratchOps(flx.ndim)[flx.th[t].pos].op \in ops
CurOp(t) == ScratchOps(flx.ndim)[flx.th[t].pos]

\* DonorCellX1 / PiecewiseLinearX1 (ql(i + 1), qr(i) of the cells ib.s - 1..ib.e + 1)
\* and DonorCellX2 / PiecewiseLinearX2 (ql(i), qr(i) of the cells il..iu of row j),
\* the share of thread t; dst is the pad passed as ql
ReconScratch(buf, stage, w, t, o, dst) ==
  LET mine == Mine(t, FxIs - 1, FxIe + 1)
  IN IF o.dir = 1
       THEN [buf EXCEPT
               ![dst] = [i \in FxCols |->
                  IF (i - 1) \in mine THEN UpperState(stage, w, 1, o.row, i - 1) ELSE @[i]],
               !["R"] = [i \in FxCols |->
                  IF i \in mine THEN LowerState(stage, w, 1, o.row, i) ELSE @[i]]]
     ELSE [buf EXCEPT
               ![dst] = [i \in FxCols |->
                  IF i \in mine THEN UpperState(stage, w, 2, o.row, i) ELSE @[i]],
               !["R"] = [i \in FxCols |->
                  IF i \in mine THEN LowerState(stage, w, 2, o.row, i) ELSE @[i]]]

ThreadRecon(t) ==
  /\ AtOp(t, {"recon", "reconb"})
  /\ LET o == CurOp(t)
         dst == IF o.op = "reconb" THEN SwapHandle(flx.th[t].h) ELSE flx.th[t].h
     IN flx' = [flx EXCEPT
          !.buf = ReconScratch(@, flx.arr.stage, flx.arr.w, t, o, dst),
          !.th[t].pos = @ + 1]
  /\ UNCHANGED FxOthers

ThreadBarrier(t) ==
  /\ AtOp(t, {"barrier", "barrier2", "join"})
  /\ BarrierOpen(flx.th[t].pos)
  /\ flx' = [flx EXCEPT !.th[t].pos = @ + 1,
                        !.th[t].h = IF CurOp(t).op = "join" THEN "A" ELSE @]
  /\ UNCHANGED FxOthers

\* RiemannSolver(member, k, j, il, iu, ivx, wl, wr, flx, eos), the share of thread t
ThreadSolve(t) ==
  /\ AtOp(t, {"solve"})
  /\ LET o == CurOp(t)
         wl == flx.buf[flx.th[t].h]
         wr == flx.buf["R"]
         mine == IF o.dir = 1 THEN Mine(t, FxIs, FxIe + 1)
                 ELSE Mine(t, FxIs - 1, FxIe + 1)
         fill(row) == [i \in FxCols |->
                         IF i \in mine THEN RiemannFlux(wl[i], wr[i]) ELSE row[i]]
     IN flx' = [flx EXCEPT
          !.arr = IF o.dir = 1 THEN [@ EXCEPT !.x1flux[o.row] = fill(@)]
                  ELSE [@ EXCEPT !.x2flux[o.row] = fill(@)],
          !.th[t].pos = @ + 1]
  /\ UNCHANGED FxOthers

ThreadSwap(t) ==
  /\ AtOp(t, {"swap"})
  /\ flx' = [flx EXCEPT !.th[t].h = SwapHandle(@), !.th[t].pos = @ + 1]
  /\ UNCHANGED FxOthers

ScratchReturn ==
  /\ flx.pc = "run" /\ flx.variant = "scratch"
  /\ \A t \in Threads : flx.th[t].pos > Len(ScratchOps(flx.ndim))
  /\ flx' = [flx EXCEPT !.pc = "done"]
  /\ UNCHANGED FxOthers

NextFluxes ==
  \/ KjiStep
  \/ KjiReturn
  \/ \E t \in Threads : ThreadRecon(t)
  \/ \E t \in Threads : ThreadBarrier(t)
  \/ \E t \in Threads : ThreadSolve(t)
  \/ \E t \in Threads : ThreadSwap(t)
  \/ ScratchReturn

SpecFluxes == InitFluxes /\ [][NextFluxes]_vars

(***************************************************************************)
(* Claims about the flux calculation                                       *)
(***************************************************************************)
FxDone == flx.pc = "done"
FxScratch == flx.pc # "idle" /\ flx.variant = "scratch"
\* the arrays before the call, and what CalculateFluxes makes of them
FxBefore == FluxArrays(flx.profile, flx.arr.stage, flx.ndim)
FxKji == CalculateFluxes(FxBefore, flx.ndim)
\* the position of an operation of the X2 team in the list of a thread
X2Pos(op, row) ==
  CHOOSE p \in 1..Len(ScratchOps(flx.ndim)) :
    ScratchOps(flx.ndim)[p] = ScratchOp(op, 2, row)
X2LoopRows == FxJs(flx.ndim)..(FxJe(flx.ndim) + 1)

\* what the pads of thread t hold when it is about to solve
PadsHoldRows(t) ==
  LET o == CurOp(t)
      wl == flx.buf[flx.th[t].h]
      wr == flx.buf["R"]
  IN IF o.dir = 1
       THEN \A i \in FxIs..(FxIe + 1) :
              /\ wl[i] = UpperState(flx.arr.stage, flx.arr.w, 1, o.row, i - 1)
              /\ wr[i] = LowerState(flx.arr.stage, flx.arr.w, 1, o.row, i)
     ELSE \A i \in (FxIs - 1)..(FxIe + 1) :
              /\ wl[i] = UpperState(flx.arr.stage, flx.arr.w, 2, o.row - 1, i)
              /\ wr[i] = LowerState(flx.arr.stage, flx.arr.w, 2, o.row, i)

\* C15: CalculateFluxesWScratch fills the same entries of the flux arrays with
\* the same values as CalculateFluxes, for both stages and in one and two
\* dimensions; at every Riemann call of a row, wl holds the left states of the
\* row before (in X1: of the cell before) and wr the right states of the row
C15_ScratchSameFluxes ==
  FxScratch =>
    /\ FxDone => (flx.arr.x1flux = FxKji.x1flux /\ flx.arr.x2flux = FxKji.x2flux)
    /\ \A t \in Threads : AtOp(t, {"solve"}) => PadsHoldRows(t)

\* the scratch variant returned after a second-stage call in two dimensions
C15_Witness ==
  /\ FxScratch /\ FxDone /\ flx.ndim = 2 /\ flx.arr.stage = 2
  /\ \E f \in X2Range(2) : flx.arr.x2flux[f[1]][f[2]] # OldFlux
  /\ \E j \in FxRows(2), i \in FxCols : flx.arr.x2flux[j][i] = OldFlux

\* C16: in the X2 scratch sweep no thread is let into the Riemann solve of row j
\* before every thread of the team has written its reconstruction of row j, and
\* no thread swaps its pads or starts the reconstruction of the next row before
\* every thread has finished the Riemann solve of row j
C16_BarriersOrderRows ==
  (FxScratch /\ flx.ndim >= 2) =>
    \A t \in Threads, u \in Threads, j \in X2LoopRows :
      /\ flx.th[t].pos >= X2Pos("solve", j) => flx.th[u].pos > X2Pos("reconb", j)
      /\ flx.th[t].pos >= X2Pos("swap", j) => flx.th[u].pos > X2Pos("solve", j)
      /\ flx.th[t].pos >= X2Pos("reconb", FxJs(flx.ndim))
           => flx.th[u].pos > X2Pos("recon", FxJs(flx.ndim) - 1)

\* one thread has solved a row of the loop while another has not started to, and
\* one thread waits to swap while another still solves
C16_Witness ==
  /\ FxScratch /\ flx.pc = "run" /\ flx.ndim >= 2
  /\ \E t \in Threads, u \in Threads, j \in X2LoopRows :
       /\ j > FxJs(flx.ndim)
       /\ flx.th[t].pos = X2Pos("barrier2", j)
       /\ flx.th[u].pos = X2Pos("solve", j)

\* the orders in which the steps of the sweeps can be taken: whole sweeps one
\* after the other, and all interleavings that keep each sweep's own order
SweepOrders == { <<"RX1", "SX1", "RX2", "SX2">>, <<"RX2", "SX2", "RX1", "SX1">> }
SweepInterleavings ==
  SweepOrders \cup
  { <<"RX1", "RX2", "SX1", "SX2">>, <<"RX1", "RX2", "SX2", "SX1">>,
    <<"RX2", "RX1", "SX1", "SX2">>, <<"RX2", "RX1", "SX2", "SX1">> }
SameFluxes(a, b) == a.x1flux = b.x1flux /\ a.x2flux = b.x2flux
FxKjiDone2D == FxDone /\ flx.variant = "kji" /\ flx.ndim = 2

\* C17 as stated: the sweeps of CalculateFluxes taken in any order or interleaved
\* give the flux arrays of the sequential execution
C17_AsClaimed ==
  FxKjiDone2D =>
    \A ops \in SweepInterleavings : SameFluxes(FluxSteps(FxBefore, flx.ndim, ops), flx.arr)

\* C17: the sweeps of CalculateFluxes taken as whole sweeps in any order give the
\* same flux arrays, and the Riemann solver of a sweep reads only left and right
\* states its own reconstruction wrote (the sweeps share the arrays wl and wr, so
\* this does not extend to interleaved sweeps)
C17_WholeSweepsAnyOrder ==
  FxKjiDone2D =>
    /\ \A ops \in SweepOrders : SameFluxes(FluxSteps(FxBefore, flx.ndim, ops), flx.arr)
    /\ \A f \in X1Range(2) :
         flx.arr.x1flux[f[1]][f[2]] =
           RiemannFlux(UpperState(flx.arr.stage, flx.arr.w, 1, f[1], f[2] - 1),
                       LowerState(flx.arr.stage, flx.arr.w, 1, f[1], f[2]))
    /\ \A f \in X2Range(2) :
         flx.arr.x2flux[f[1]][f[2]] =
           RiemannFlux(UpperState(flx.arr.stage, flx.arr.w, 2, f[1] - 1, f[2]),
                       LowerState(flx.arr.stage, flx.arr.w, 2, f[1], f[2]))

\* CalculateFluxes returned on a two-dimensional block, where the two sweeps
\* wrote different states to the same entries of wl
C17_Witness ==
  /\ FxKjiDone2D
  /\ \E f \in X1Range(2) \cap X2Range(2) :
       ReconX1KJI(FxBefore, 2).wl[f[1]][f[2]] # flx.arr.wl[f[1]][f[2]]


\* the two states at face <<j, i>> of direction dir, first order and second order
DonorStates(w, dir, j, i) ==
  IF dir = 1 THEN << w[j][i - 1], w[j][i] >> ELSE << w[j - 1][i], w[j][i] >>
LinearStates(w, dir, j, i) ==
  IF dir = 1
    THEN << RAdd(w[j][i - 1], RMul(Rat(1, 2), CellSlope(w, 1, j, i - 1))),
            RSub(w[j][i], RMul(Rat(1, 2), CellSlope(w, 1, j, i))) >>
  ELSE << RAdd(w[j - 1][i], RMul(Rat(1, 2), CellSlope(w, 2, j - 1, i))),
          RSub(w[j][i], RMul(Rat(1, 2), CellSlope(w, 2, j, i))) >>

\* the flux of a face from the states of reconstruction fun
FluxWith(fun, dir, j, i) ==
  LET st == IF fun = "DonorCell" THEN DonorStates(flx.arr.w, dir, j, i)
            ELSE LinearStates(flx.arr.w, dir, j, i)
  IN RiemannFlux(st[1], st[2])

\* C24: the reconstruction of a flux computation is selected by the integrator
\* stage alone: donor cell in every swept direction in stage 1, piecewise linear
\* in every swept direction in every later stage, in CalculateFluxes, in
\* CalculateFluxesWScratch and in the driver's choice of the flux function
C24_ReconByStage ==
  flx.pc # "idle" =>
    /\ flx.fun = IF flx.arr.stage = 1 THEN "DonorCell" ELSE "PiecewiseLinear"
    /\ FxDone =>
         /\ \A f \in X1Range(flx.ndim) :
              flx.arr.x1flux[f[1]][f[2]] = FluxWith(flx.fun, 1, f[1], f[2])
         /\ \A f \in X2Range(flx.ndim) :
              flx.arr.x2flux[f[1]][f[2]] = FluxWith(flx.fun, 2, f[1], f[2])

\* a call of the third stage has returned: in both directions some flux differs
\* from the first-order flux
C24_Witness ==
  /\ FxDone /\ flx.arr.stage = 3 /\ flx.ndim = 2
  /\ \E f \in X1Range(2) : flx.arr.x1flux[f[1]][f[2]] # FluxWith("DonorCell", 1, f[1], f[2])
  /\ \E f \in X2Range(2) : flx.arr.x2flux[f[1]][f[2]] # FluxWith("DonorCell", 2, f[1], f[2])
\* a call of the first stage has returned
C24_WitnessFirst ==
  /\ FxDone /\ flx.arr.stage = 1 /\ flx.ndim = 2 /\ FxScratch
  /\ \E f \in X2Range(2) : flx.arr.x2flux[f[1]][f[2]] # FluxWith("PiecewiseLinear", 2, f[1], f[2])


(***************************************************************************)
(* The loop limits of Hydro::CalculateFluxes (hydro.cpp:145-231) on blocks *)
(* of one, two and three dimensions                                        *)
(***************************************************************************)
MaxSweepNx == 5

\* pmb->pmy_mesh->ndim of a mesh whose blocks have nx cells
MeshNdim(nx) == IF nx[3] > 1 THEN 3 ELSE IF nx[2] > 1 THEN 2 ELSE 1

\* block sizes: a dimension is present only if the one before it is
SweepShapes ==
  { nx \in (1..MaxSweepNx) \X (1..MaxSweepNx) \X (1..MaxSweepNx) :
      /\ nx[3] > 1 => nx[2] > 1
      /\ nx[2] > 1 => nx[1] > 1 }

\* ib, jb, kb (IndexDomain::interior) as records
Bounds(nx, d) == [s |-> IntS(nx, d), e |-> IntE(nx, d)]

\* jl, ju, kl, ku of the X1 sweep (hydro.cpp:150-159); padded: as in two or
\* three dimensions whatever the block
X1LimitsPadded(nx) ==
  [jl |-> Bounds(nx, 2).s - 1, ju |-> Bounds(nx, 2).e + 1,
   kl |-> Bounds(nx, 3).s - 1, ku |-> Bounds(nx, 3).e + 1]
X1Limits(nx) ==
  LET jb == Bounds(nx, 2)
      kb == Bounds(nx, 3)
  IN IF nx[2] > 1
       THEN IF nx[3] = 1
              THEN [jl |-> jb.s - 1, ju |-> jb.e + 1, kl |-> kb.s, ku |-> kb.e]
            ELSE [jl |-> jb.s - 1, ju |-> jb.e + 1, kl |-> kb.s - 1, ku |-> kb.e + 1]
     ELSE [jl |-> jb.s, ju |-> jb.e, kl |-> kb.s, ku |-> kb.e]

\* the arguments kl, ku, jl, ju, il, iu of the RiemannSolver call of a sweep
SweepX1Call(nx) ==
  LET ib == Bounds(nx, 1)
      l == X1Limits(nx)
  IN [dir |-> 1, kl |-> l.kl, ku |-> l.ku, jl |-> l.jl, ju |-> l.ju,
      il |-> ib.s, iu |-> ib.e + 1]
SweepX2Call(nx) ==
  LET ib == Bounds(nx, 1)
      jb == Bounds(nx, 2)
      kb == Bounds(nx, 3)
  IN [dir |-> 2,
      kl |-> IF nx[3] = 1 THEN kb.s ELSE kb.s - 1,
      ku |-> IF nx[3] = 1 THEN kb.e ELSE kb.e + 1,
      jl |-> jb.s, ju |-> jb.e + 1, il |-> ib.s - 1, iu |-> ib.e + 1]
SweepX3Call(nx) ==
  LET ib == Bounds(nx, 1)
      jb == Bounds(nx, 2)
      kb == Bounds(nx, 3)
  IN [dir |-> 3, kl |-> kb.s, ku |-> kb.e + 1,
      jl |-> jb.s - 1, ju |-> jb.e + 1, il |-> ib.s - 1, iu |-> ib.e + 1]

InitSweeps ==
  /\ ini = IniIdle /\ stg = StgIdle /\ est = EstIdle /\ DriverIdle
  /\ cnd = CndIdle /\ agn = AgnIdle /\ flx = FlxIdle
  /\ \E nx \in SweepShapes : knl = [pc |-> "X1", nx |-> nx, calls |-> << >>]

KnlOthers == <<ini, stg, est, drv, cnd, agn, flx>>

\* the three parts of CalculateFluxes
SweepX1 ==
  /\ knl.pc = "X1"
  /\ knl' = [knl EXCEPT !.pc = "X2", !.calls = Append(@, SweepX1Call(knl.nx))]
  /\ UNCHANGED KnlOthers
SweepX2 ==
  /\ knl.pc = "X2"
  /\ knl' = [knl EXCEPT !.pc = "X3",
               !.calls = IF MeshNdim(knl.nx) >= 2 THEN Append(@, SweepX2Call(knl.nx))
                         ELSE @]
  /\ UNCHANGED KnlOthers
SweepX3 ==
  /\ knl.pc = "X3"
  /\ knl' = [knl EXCEPT !.pc = "swept",
               !.calls = IF MeshNdim(knl.nx) >= 3 THEN Append(@, SweepX3Call(knl.nx))
                         ELSE @]
  /\ UNCHANGED KnlOthers

NextSweeps == SweepX1 \/ SweepX2 \/ SweepX3
SpecSweeps == InitSweeps /\ [][NextSweeps]_vars

\* the limits of a call along dimension t
CallRange(c, t) ==
  IF t = 1 THEN << c.il, c.iu >> ELSE IF t = 2 THEN << c.jl, c.ju >> ELSE << c.kl, c.ku >>

\* C25: CalculateFluxes sweeps X2 only with at least two dimensions and X3 only
\* with three; along the sweep direction the flux is computed at the interior
\* cell count + 1 interfaces start .. end + 1; in a transverse dimension the range
\* is the interior range extended by one cell on each side if the dimension is
\* present and the interior range if it is absent
C25_SweepRanges ==
  knl.pc \in {"X1", "X2", "X3", "swept"} =>
    /\ \A n \in DOMAIN knl.calls :
         LET c == knl.calls[n]
         IN /\ c.dir = n /\ c.dir <= MeshNdim(knl.nx)
            /\ \A t \in 1..3 :
                 CallRange(c, t) =
                   IF t = c.dir THEN << IntS(knl.nx, t), IntE(knl.nx, t) + 1 >>
                   ELSE IF t <= MeshNdim(knl.nx)
                     THEN << IntS(knl.nx, t) - 1, IntE(knl.nx, t) + 1 >>
                   ELSE << IntS(knl.nx, t), IntE(knl.nx, t) >>
            /\ CallRange(c, c.dir)[2] - CallRange(c, c.dir)[1] + 1 = knl.nx[c.dir] + 1
    /\ knl.pc = "swept" => Len(knl.calls) = MeshNdim(knl.nx)

\* a two-dimensional block has been swept: two calls, none padded in k
C25_Witness ==
  /\ knl.pc = "swept" /\ MeshNdim(knl.nx) = 2 /\ Len(knl.calls) = 2
  /\ knl.calls[1].jl = IntS(knl.nx, 2) - 1 /\ knl.calls[1].kl = 0 /\ knl.calls[1].ku = 0
  /\ knl.calls[2].il = IntS(knl.nx, 1) - 1
\* a three-dimensional block has been swept
C25_Witness3D ==
  /\ knl.pc = "swept" /\ Len(knl.calls) = 3
  /\ knl.calls[1].kl = IntS(knl.nx, 3) - 1


(***************************************************************************)
(* The stage's task collection: the c_h chain, the split sources, the      *)
(* order of a stage's operations                                           *)
(***************************************************************************)
\* the tasks that write the accumulator mindx or read it to set c_h
AccumulatorTasks == {"ResetMinDx", "CalculateGlobalMinDx", "AllReduceMins", "UpdateCh"}

\* the chain, by name
ChainNames(c) ==
  << "ResetMinDx" >> \o [i \in Blocks |-> "CalculateGlobalMinDx"]
    \o (IF c.mpi THEN << "AllReduceMins" >> ELSE << >>) \o << "UpdateCh" >>

\* the regions of a collection that hold an accumulator task
ChRegions(regions) ==
  { n \in DOMAIN regions :
      \E l \in DOMAIN regions[n] : \E k \in DOMAIN regions[n][l] :
        regions[n][l][k].name \in AccumulatorTasks }

\* a region of one task list that is the chain: every task depends on the one
\* added before it, and every partition has its CalculateGlobalMinDx
OneChain(region) ==
  /\ DOMAIN region = {1}
  /\ [k \in DOMAIN region[1] |-> region[1][k].name] = ChainNames(cfg)
  /\ \A k \in DOMAIN region[1] : region[1][k].dep = k - 1
  /\ { region[1][k].blk : k \in 2..(1 + NumBlocks) } = Blocks

\* the minimum spacing over all partitions (of all ranks) and the hyperbolic
\* timestep when c_h is set
MinSpacing == IF cfg.mpi THEN RMin(cfg.dx, cfg.remote.mindx) ELSE cfg.dx
DtHypAtUpdate == IF cfg.mpi THEN RMin(cfg.dt, cfg.remote.dt_hyp) ELSE cfg.dt

ChainDone == Len(hst.log[0]) = Len(ChainNames(cfg))

C18_WitnessMpi ==
  /\ cfg.calc_c_h /\ cfg.mpi /\ ChainDone
  /\ pkg.mindx = cfg.remote.mindx

\* ---- the split sources ----
\* the positions in the log of list b at which task name ran in stage s
LogAt(b, name, s) ==
  { k \in DOMAIN hst.log[b] : hst.log[b][k].name = name /\ hst.log[b][k].stage = s }
LogOf(b, name) == UNION { LogAt(b, name, s) : s \in 1..cfg.nstages }

\* every position of A precedes every position of B
Precede(A, B) == \A x \in A, y \in B : x < y

\* the timestep has been executed
StepDone == tc.stage = cfg.nstages /\ tc.cur > Len(tc.regions)

\* the position of the Strang half step that closes the step
FinalStrang(b) ==
  { k \in LogAt(b, "AddSplitSourcesStrang", cfg.nstages) :
      \E u \in LogAt(b, "AddUnsplitSources", cfg.nstages) : u < k }

\* C19: in a timestep of an n-stage integrator AddSplitSourcesStrang runs twice per
\* partition, in stage 1 before the first hydrodynamic flux calculation and in
\* stage n after that stage's UpdateWithFluxDivergence and AddUnsplitSources;
\* AddSplitSourcesFirstOrder runs once, after the final Strang half step and before
\* the ghost exchange of stage n; neither runs in a stage 1 < k < n
C19_SplitSources ==
  \A b \in Blocks :
    LET strang == LogOf(b, "AddSplitSourcesStrang")
        first == LogOf(b, "AddSplitSourcesFirstOrder")
        opening == strang \ FinalStrang(b)
    IN /\ Cardinality(opening) <= 1 /\ Cardinality(FinalStrang(b)) <= 1
       /\ Cardinality(first) <= 1
       /\ opening \subseteq LogAt(b, "AddSplitSourcesStrang", 1)
       /\ first \subseteq LogAt(b, "AddSplitSourcesFirstOrder", cfg.nstages)
       /\ \A s \in 2..(cfg.nstages - 1) :
            /\ LogAt(b, "AddSplitSourcesStrang", s) = {}
            /\ LogAt(b, "AddSplitSourcesFirstOrder", s) = {}
       \* the opening half step precedes every flux calculation
       /\ LogOf(b, "CalcFlux") # {} => Cardinality(opening) = 1
       /\ Precede(opening, LogOf(b, "CalcFlux"))
       \* the closing half step follows the last stage's update and unsplit sources
       /\ \A k \in FinalStrang(b) :
            /\ \E u \in LogAt(b, "UpdateWithFluxDivergence", cfg.nstages) : u < k
            /\ \E u \in LogAt(b, "CalcFlux", cfg.nstages) : u < k
       \* the first-order source follows it and precedes the last stage's exchange
       /\ first # {} => Cardinality(FinalStrang(b)) = 1
       /\ Precede(FinalStrang(b), first)
       /\ \A k \in LogAt(b, "SendBoundaryBuffers", cfg.nstages) :
            hst.log[b][k].r = "base" => (Cardinality(first) = 1 /\ Precede(first, {k}))
       /\ StepDone => Cardinality(strang) = 2 /\ Cardinality(first) = 1

\* a three-stage step has been executed: the sources bracket the three updates
C19_Witness ==
  /\ StepDone /\ cfg.nstages = 3
  /\ \A b \in Blocks :
       /\ Cardinality(LogOf(b, "AddSplitSourcesStrang")) = 2
       /\ Cardinality(LogOf(b, "UpdateWithFluxDivergence")) = 3
       /\ LogAt(b, "AddSplitSourcesStrang", 2) = {}
\* a one-stage step: both half steps are in stage 1
C19_WitnessOneStage ==
  /\ StepDone /\ cfg.nstages = 1
  /\ \A b \in Blocks : Cardinality(LogAt(b, "AddSplitSourcesStrang", 1)) = 2

\* ---- the order of a stage's operations ----
\* the operations of a stage on the base register of a block or partition, in the
\* order stated
StageOrder(c, s) ==
  << "CalcFlux" >>
    \o (IF c.first_order_flux_correct THEN << "FirstOrderFluxCorrect" >> ELSE << >>)
    \o << "SendFluxCorrection", "ReceiveFluxCorrection",
          "UpdateWithFluxDivergence", "AddUnsplitSources" >>
    \o (IF s = c.nstages THEN << "AddSplitSourcesStrang", "AddSplitSourcesFirstOrder" >>
        ELSE << >>)
    \o << "SendBoundaryBuffers", "ReceiveBoundaryBuffers", "SetBoundaries",
          "ClearBoundary" >>
    \o (IF c.multilevel THEN << "ProlongateBoundaries" >> ELSE << >>)
    \o << "ApplyBoundaryConditions", "FillDerived" >>

IsPrefix(a, b) == Len(a) <= Len(b) /\ \A k \in DOMAIN a : a[k] = b[k]
Names(q) == [k \in DOMAIN q |-> q[k].name]
Range(q) == { q[k] : k \in DOMAIN q }

\* what list b has run of stage s on the base register from the flux calculation on
RanOfStage(b, s) ==
  LET from == LogAt(b, "CalcFlux", s)
      InStage(e) == /\ e.stage = s /\ e.r = "base"
                    /\ e.name \in Range(StageOrder(cfg, s))
      tail == IF from = {} THEN << >>
              ELSE SubSeq(hst.log[b], CHOOSE k \in from : \A x \in from : k <= x,
                          Len(hst.log[b]))
  IN Names(SelectSeq(tail, InStage))

\* the StartReceiving and ClearBoundary that list b has run on register r
Handshakes(b, r) ==
  LET OnR(e) == e.r = r /\ e.name \in {"StartReceiving", "ClearBoundary"}
  IN Names(SelectSeq(hst.log[b], OnR))

StsCycle ==
  << "StartReceiving", "ResetFluxes", "CalcDiffFluxes", "RKL2Step",
     "SendBoundaryBuffers", "ReceiveBoundaryBuffers", "SetBoundaries",
     "ClearBoundary", "FillDerived" >>

\* what list b has run of them
StsRan(b) ==
  LET OnYjm1(e) == e.r = "u1" /\ e.name \in Range(StsCycle)
  IN Names(SelectSeq(hst.log[b], OnYjm1))

\* the sub-stages of the STS sequences added so far
RECURSIVE SubStagesOf(_)
SubStagesOf(sts) == IF sts = << >> THEN 0 ELSE Head(sts).s_rkl + SubStagesOf(Tail(sts))

\* the flux arrays of Yjm1 hold the conduction term on zero at the interfaces
\* the flux divergence of the interior reads
FreshDiffFlux(b) ==
  \A i \in IbS..(IbE + 1) :
    reg[b].u1.flux[i] =
      [d |-> R(0), m |-> R(0),
       e |-> RNeg(HeatFluxTerm(cfg.kappa, cfg.dx, reg[b].u1.prim, i))]

\* C21: in an STS sequence the tasks of every sub-stage on Yjm1 complete in the
\* order StartReceiving, ResetFluxes, CalcDiffFluxes, RKL2Step, SendBoundaryBuffers,
\* ReceiveBoundaryBuffers, SetBoundaries, ClearBoundary, FillDerived; no task of
\* the next sub-stage runs before FillDerived has completed on all partitions;
\* the fluxes RKL2Step takes the divergence of were zeroed in the same sub-stage
C21_SubStageOrder ==
  \A b \in Blocks :
    /\ Len(StsRan(b)) <= Len(StsCycle) * SubStagesOf(hst.sts)
    /\ \A k \in DOMAIN StsRan(b) : StsRan(b)[k] = StsCycle[((k - 1) % Len(StsCycle)) + 1]
    /\ StepDone => Len(StsRan(b)) = Len(StsCycle) * SubStagesOf(hst.sts)
    /\ \A b2 \in Blocks :
         Len(StsRan(b)) >= 1 =>
           Len(StsRan(b2)) >= ((Len(StsRan(b)) - 1) \div Len(StsCycle)) * Len(StsCycle)
    /\ (hst.last[b].r = "u1" /\ hst.last[b].name \in {"CalcDiffFluxes", "RKL2Step"})
         => FreshDiffFlux(b)

\* RKL2Step of the third sub-stage has just run on a block while the other block
\* is still in that sub-stage
C21_Witness ==
  \E b \in Blocks, b2 \in Blocks :
    /\ hst.last[b].name = "RKL2Step" /\ hst.last[b].j = 3
    /\ Len(StsRan(b)) = 2 * Len(StsCycle) + 4
    /\ Len(StsRan(b2)) = 2 * Len(StsCycle) + 1
    /\ FreshDiffFlux(b)

\* block b is between RKL2Step of sub-stage 1 and RKL2Step of sub-stage 2
BeforeSecondStep(b) ==
  \/ /\ hst.last[b].j = 1
     /\ hst.last[b].name \in { StsCycle[k] : k \in 4..Len(StsCycle) }
  \/ /\ hst.last[b].j = 2
     /\ hst.last[b].name \in { StsCycle[k] : k \in 1..3 }

\* C23: at the start of RKL2 sub-stage 2 the interior conserved values of Yjm2
\* equal those of Y0
C23_Yjm2IsY0 ==
  \A b \in Blocks :
    BeforeSecondStep(b) =>
      \A i \in Interior : reg[b].Yjm2.cons[i] = reg[b].base.cons[i]

\* sub-stage 2 of the sequence after the hydrodynamic update is about to run
\* RKL2Step: Yjm2 has been used by the first sequence, and Yjm1 holds Y_1
C23_Witness ==
  \E b \in Blocks :
    /\ hst.last[b].j = 2 /\ hst.last[b].name = "CalcDiffFluxes"
    /\ hst.run[b].runs = 1
    /\ \A i \in Interior : reg[b].Yjm2.cons[i] = reg[b].base.cons[i]
    /\ \E i \in Interior : reg[b].u1.cons[i] # reg[b].base.cons[i]


\* ---- the timestep estimate and the refinement tagging ----
TailNames == {"EstimateTimestep", "Tag"}

\* the tasks of the stage's collection that list b runs before the tail, and the
\* ones it has run
StageTasks(b) ==
  { id \in UNION { UNION { {<<r, l>>} \X DOMAIN tc.regions[r][l] :
                           l \in DOMAIN tc.regions[r] } : r \in DOMAIN tc.regions } :
      LET t == tc.regions[id[1][1]][id[1][2]][id[2]]
      IN Lane(t) = b /\ t.name \notin TailNames }
StageRan(b) ==
  { k \in DOMAIN hst.log[b] :
      hst.log[b][k].stage = tc.stage /\ hst.log[b][k].name \notin TailNames }

\* the last operation of list b that is neither the estimate nor the tagging
LastBeforeTail(b) ==
  LET ks == { k \in DOMAIN hst.log[b] : hst.log[b][k].name \notin TailNames }
  IN IF ks = {} THEN "" ELSE hst.log[b][CHOOSE k \in ks : \A x \in ks : x <= k].name

\* C27: EstimateTimestep and Tag run in the last stage only; once an
\* EstimateTimestep has run, every list has run all the other tasks of the stage,
\* ending with FillDerived or, with rkl2, with the copy-back of the second STS
\* sequence; Tag runs only on an adaptive mesh and after EstimateTimestep has run
\* on every list; a step runs EstimateTimestep once per list
C27_TimestepAndTag ==
  /\ \A b \in Blocks : \A k \in DOMAIN hst.log[b] :
       hst.log[b][k].name \in TailNames => hst.log[b][k].stage = cfg.nstages
  /\ \A b \in Blocks :
       LogOf(b, "EstimateTimestep") # {} =>
         \A c \in Blocks :
           /\ Cardinality(StageRan(c)) = Cardinality(StageTasks(c))
           /\ LastBeforeTail(c) = IF cfg.diffint = "rkl2" THEN "CopyOut" ELSE "FillDerived"
           /\ cfg.diffint = "rkl2" => Cardinality(LogOf(c, "CopyOut")) = 2
           /\ Precede(LogOf(c, "FillDerived") \cup LogOf(c, "CopyOut"),
                      LogOf(c, "EstimateTimestep"))
  /\ \A b \in Blocks :
       LogOf(b, "Tag") # {} =>
         /\ cfg.adaptive
         /\ \A c \in Blocks : LogOf(c, "EstimateTimestep") # {}
         /\ Precede(LogOf(b, "EstimateTimestep"), LogOf(b, "Tag"))
  /\ StepDone =>
       \A b \in Blocks :
         /\ Cardinality(LogOf(b, "EstimateTimestep")) = 1
         /\ Cardinality(LogOf(b, "Tag")) = IF cfg.adaptive THEN 1 ELSE 0

\* a two-stage step with conduction on an adaptive mesh is over: every block was
\* tagged after the estimate, which came after the second copy-back
C27_Witness ==
  /\ StepDone /\ cfg.adaptive /\ cfg.diffint = "rkl2" /\ cfg.nstages = 2
  /\ \A b \in Blocks :
       /\ LogOf(b, "Tag") # {}
       /\ Cardinality(LogOf(b, "CopyOut")) = 2
       /\ LogAt(b, "EstimateTimestep", 1) = {}

\* a step without conduction on a fixed mesh is over: the estimate ran, no tagging
C27_WitnessStatic ==
  /\ StepDone /\ ~cfg.adaptive /\ cfg.diffint = "none"
  /\ \A b \in Blocks : LogOf(b, "EstimateTimestep") # {} /\ LogOf(b, "Tag") = {}


\* ---- the shape of the task collections and their execution to the end ----
\* what the execution of a task does to the task collection: a task that can run
\* completes
ExecuteTask ==
  /\ tc.cur <= Len(tc.regions)
  /\ \E l \in DOMAIN tc.regions[tc.cur] : \E k \in DOMAIN tc.regions[tc.cur][l] :
       Runnable(l, k) /\ tc' = Executed(<<l, k>>)

\* the driver is between two stages: BuildStage is enabled
BetweenStages == tc.cur > Len(tc.regions) /\ tc.stage < cfg.nstages

\* the driver under a scheduler that keeps executing: no task that can run waits
\* forever (weak fairness of the execution of tasks), and the stage loop goes on
\* to the next stage (weak fairness of BuildStage, which is enabled exactly
\* between two stages and leaves that state)
SpecFair ==
  InitDriver /\ [][Next]_vars /\ WF_tc(ExecuteTask) /\ []<>~BetweenStages

\* the tasks of the stage's collection as <<<<region, list>>, position>>
TaskIds ==
  UNION { UNION { {<<r, l>>} \X DOMAIN tc.regions[r][l] : l \in DOMAIN tc.regions[r] } :
          r \in DOMAIN tc.regions }
TaskOf(id) == tc.regions[id[1][1]][id[1][2]][id[2]]

\* the tasks that have completed: those of the regions left behind and the done
\* ones of the region being executed
Completed ==
  { id \in TaskIds : \/ id[1][1] < tc.cur
                     \/ id[1][1] = tc.cur /\ <<id[1][2], id[2]>> \in tc.done }

\* every task depends on no task or on a task added before it to its list
Acyclic == \A id \in TaskIds : TaskOf(id).dep \in 0..(id[2] - 1)

\* what has run of the stage is each completed task once, and nothing else
RanOnce ==
  LET done == Completed
  IN \A b \in Lanes :
       LET comp == { id \in done : Lane(TaskOf(id)) = b }
           ran == { k \in DOMAIN hst.log[b] : hst.log[b][k].stage = tc.stage }
       IN /\ Cardinality(ran) = Cardinality(comp)
          /\ \A n \in { TaskOf(id).name : id \in comp } :
               Cardinality({ k \in ran : hst.log[b][k].name = n }) =
                 Cardinality({ id \in comp : TaskOf(id).name = n })

\* within a stage the collection stays as built and the regions are taken in the
\* order of their creation
RegionsInOrder ==
  tc'.stage = tc.stage => (tc'.regions = tc.regions /\ tc'.cur >= tc.cur)

\* the collection of stage s has been executed to its end
StageOver(s) == tc.stage = s /\ tc.cur > Len(tc.regions) /\ Completed = TaskIds

\* C30: in every task collection each task depends on no task or on a task
\* added earlier to the same list, and the regions are executed in the order of
\* their creation; under a fair scheduler every task of a stage runs exactly
\* once and every stage of the step comes to its end
C30_AcyclicAndTerminating ==
  /\ [](Acyclic /\ RanOnce)
  /\ [][RegionsInOrder]_vars
  /\ \A s \in 1..3 : <>(s > cfg.nstages \/ StageOver(s))

\* the last stage of a two-stage step with conduction and the c_h region of its
\* first stage are over: every task of the collection has completed
C30_Witness ==
  /\ StageOver(2) /\ cfg.nstages = 2 /\ cfg.diffint = "rkl2" /\ cfg.calc_c_h
  /\ Cardinality(TaskIds) > 20 * NumBlocks
  /\ \A b \in Blocks : Len(hst.log[b]) > 40


(***************************************************************************)
(* RKL2Step on its own (hydro_driver.cpp:131-195): sub-stages 1..s of      *)
(* sequences of up to MaxRklStages sub-stages, on the registers of a block *)
(***************************************************************************)
MaxRklStages == 7

\* contents of a register: conserved values and fluxes that differ from cell to
\* cell and from variable to variable
VarIndex == [d |-> 0, m |-> 1, e |-> 2]
KnlRegister(p) ==
  [cons |-> [i \in Cells |-> [v \in ConsVars |-> R((((p + 1) * (i + 1) + p * VarIndex[v]) % 5) + p)]],
   flux |-> [i \in Cells |-> [v \in ConsVars |-> R((((i + 2) * p + VarIndex[v]) % 4) - 1)]]]

\* the calls of RKL2Step: s odd, 1 <= j <= s, the four registers
RklInputs ==
  { [j |-> j, s |-> s, tau |-> tau,
     blk |-> [base |-> KnlRegister(p[1]), u1 |-> KnlRegister(p[2]),
              Yjm2 |-> [cons |-> KnlRegister(p[3]).cons],
              MY0 |-> [cons |-> KnlRegister(p[4]).cons]]] :
      j \in 1..MaxRklStages, s \in { x \in 3..MaxRklStages : x % 2 = 1 },
      tau \in {Rat(1, 2), R(1)}, p \in [1..4 -> {1, 2}] }

InitRkl ==
  /\ ini = IniIdle /\ stg = StgIdle /\ est = EstIdle /\ DriverIdle
  /\ cnd = CndIdle /\ agn = AgnIdle /\ flx = FlxIdle
  /\ \E x \in RklInputs :
       /\ x.j <= x.s
       /\ knl = [pc |-> "RKL2Step", in |-> x, out |-> x.blk]

CallRKL2Step ==
  /\ knl.pc = "RKL2Step"
  /\ knl' = [knl EXCEPT !.pc = "returned",
               !.out = RKL2Step(knl.in.blk, knl.in.j, knl.in.s, knl.in.tau, R(1))]
  /\ UNCHANGED <<ini, stg, est, drv, cnd, agn, flx>>

NextRkl == CallRKL2Step
SpecRkl == InitRkl /\ [][NextRkl]_vars

\* the coefficients written out: b_0 = b_1 = b_2 = 1/3, b_j = (j^2 + j - 2)/(2j(j+1)),
\* mu_j = (2j-1)/j * b_j/b_{j-1}, nu_j = -(j-1)/j * b_j/b_{j-2}, w1 = 4/(s^2 + s - 2)
StatedB(j) == IF j <= 2 THEN Rat(1, 3) ELSE Rat(j * j + j - 2, 2 * j * (j + 1))
StatedMu(j) == RMul(Rat(2 * j - 1, j), RDiv(StatedB(j), StatedB(j - 1)))
StatedNu(j) == RMul(Rat(-(j - 1), j), RDiv(StatedB(j), StatedB(j - 2)))
StatedW1(s) == Rat(4, s * s + s - 2)

\* Y_j at cell i and variable v
StatedYj(x, v, i) ==
  LET Y0 == x.blk.base.cons[i][v]
      Yjm1 == x.blk.u1.cons[i][v]
      Yjm2 == x.blk.Yjm2.cons[i][v]
      MY0 == x.blk.MY0.cons[i][v]
      MYjm1 == RNeg(RSub(x.blk.u1.flux[i + 1][v], x.blk.u1.flux[i][v]))
      wt == RMul(StatedW1(x.s), x.tau)
      mu == StatedMu(x.j)
      nu == StatedNu(x.j)
  IN IF x.j = 1
     THEN RAdd(Y0, RMul(RMul(StatedB(1), wt), MY0))
     ELSE RSub(RAdd(RAdd(RAdd(RMul(mu, Yjm1), RMul(nu, Yjm2)),
                         RMul(RSub(RSub(R(1), mu), nu), Y0)),
                    RMul(RMul(mu, wt), MYjm1)),
               RMul(RMul(RSub(R(1), StatedB(x.j - 1)), RMul(mu, wt)), MY0))

RklReturned == knl.pc = "returned"

\* C22: RKL2Step sets, at every interior cell and variable, Yjm1 to
\* Y0 + b_1*w1*tau*MY0 when j = 1 and to mu_j*Yjm1 + nu_j*Yjm2 + (1 - mu_j - nu_j)*Y0
\* + mu_j*w1*tau*M(Yjm1) - (1 - b_{j-1})*mu_j*w1*tau*MY0 when 2 <= j <= s, and Yjm2
\* to the previous Yjm1
C22_RklUpdate ==
  RklReturned =>
    \A i \in Interior, v \in ConsVars :
      /\ knl.out.u1.cons[i][v] = StatedYj(knl.in, v, i)
      /\ knl.out.Yjm2.cons[i][v] = knl.in.blk.u1.cons[i][v]

\* sub-stage 5 of 7 has been applied to registers that all differ
C22_Witness ==
  /\ RklReturned /\ knl.in.j = 5 /\ knl.in.s = 7
  /\ knl.in.blk.u1.cons # knl.in.blk.base.cons
  /\ knl.in.blk.Yjm2.cons # knl.in.blk.u1.cons
  /\ knl.out.u1.cons # knl.in.blk.u1.cons
\* sub-stage 1 applied to a Yjm1 that differs from Y0
C22_WitnessFirst ==
  /\ RklReturned /\ knl.in.j = 1
  /\ knl.in.blk.u1.cons # knl.in.blk.base.cons
  /\ knl.out.u1.cons # knl.in.blk.base.cons


(***************************************************************************)
(* The iterations of the RKL2Step kernel (hydro_driver.cpp:177-192), each  *)
(* in three steps, in any interleaving: KnNx interior cells between two    *)
(* ghost cells, the variables KnVars, sub-stages 1..KnStages               *)
(***************************************************************************)
KnNx == 2
KnStages == 3
KnVars == {"d", "e"}
KnCells == 0..(KnNx + 1)
KnInterior == 1..KnNx
KnIters == KnVars \X KnInterior

\* the four registers before the kernel starts
KnRegister(p) ==
  [cons |-> [i \in KnCells |-> [v \in KnVars |-> R(7 * p + 2 * i + VarIndex[v])]],
   flux |-> [i \in KnCells |-> [v \in KnVars |-> R((((i + 2) * p + VarIndex[v]) % 4) - 1)]]]
KnMemory(q) ==
  [base |-> KnRegister(q), u1 |-> KnRegister(q + 1),
   Yjm2 |-> [cons |-> KnRegister(q + 2).cons], MY0 |-> [cons |-> KnRegister(q + 3).cons]]

InitKernel ==
  /\ ini = IniIdle /\ stg = StgIdle /\ est = EstIdle /\ DriverIdle
  /\ cnd = CndIdle /\ agn = AgnIdle /\ flx = FlxIdle
  /\ \E j \in 1..KnStages, q \in {1, 2} :
       knl = [pc |-> "RKL step", j |-> j, q |-> q, mem |-> KnMemory(q),
              it |-> [id \in KnIters |-> [pc |-> "calc", Yj |-> R(0)]]]

\* const Real Yj = ...: the reads of iteration (v, i)
IterCalc(id) ==
  /\ knl.pc = "RKL step" /\ knl.it[id].pc = "calc"
  /\ knl' = [knl EXCEPT !.it[id] =
       [pc |-> "Yjm2",
        Yj |-> RklYj(RklCoeffs(knl.j, KnStages), Rat(1, 2), R(1), knl.mem.base,
                     knl.mem.u1, knl.mem.Yjm2, knl.mem.MY0, id[1], id[2])]]
  /\ UNCHANGED KnlOthers
\* Yjm2(b, v, k, j, i) = Yjm1(b, v, k, j, i)
IterShift(id) ==
  /\ knl.pc = "RKL step" /\ knl.it[id].pc = "Yjm2"
  /\ knl' = [knl EXCEPT !.it[id].pc = "Yjm1",
                        !.mem.Yjm2.cons[id[2]][id[1]] = knl.mem.u1.cons[id[2]][id[1]]]
  /\ UNCHANGED KnlOthers
\* Yjm1(b, v, k, j, i) = Yj
IterStore(id) ==
  /\ knl.pc = "RKL step" /\ knl.it[id].pc = "Yjm1"
  /\ knl' = [knl EXCEPT !.it[id].pc = "done",
                        !.mem.u1.cons[id[2]][id[1]] = knl.it[id].Yj]
  /\ UNCHANGED KnlOthers
\* return TaskStatus::complete, once every iteration is done
KernelReturn ==
  /\ knl.pc = "RKL step" /\ \A id \in KnIters : knl.it[id].pc = "done"
  /\ knl' = [knl EXCEPT !.pc = "complete"]
  /\ UNCHANGED KnlOthers

NextKernel ==
  \/ \E id \in KnIters : IterCalc(id)
  \/ \E id \in KnIters : IterShift(id)
  \/ \E id \in KnIters : IterStore(id)
  \/ KernelReturn
SpecKernel == InitKernel /\ [][NextKernel]_vars

\* what iteration id leaves in Yjm1 when it runs alone on the registers the
\* kernel started from
KnAlone(id) ==
  LET m == KnMemory(knl.q)
  IN RklYj(RklCoeffs(knl.j, KnStages), Rat(1, 2), R(1), m.base, m.u1, m.Yjm2, m.MY0,
           id[1], id[2])

\* C29: in every interleaving of the iterations of the RKL2Step kernel, an
\* iteration that has stored its results has left in Yjm1 and Yjm2 what it leaves
\* when it runs alone, an iteration that has not written yet has left both as
\* they were, and Y0, MY0, the fluxes and the ghost cells are never written: the
\* kernel returns the same Yjm1 and Yjm2 whatever the order
C29_IterationsIndependent ==
  knl.pc \in {"RKL step", "complete"} =>
    LET m == KnMemory(knl.q)
    IN /\ knl.mem.base = m.base /\ knl.mem.MY0 = m.MY0 /\ knl.mem.u1.flux = m.u1.flux
       /\ \A i \in KnCells \ KnInterior :
            knl.mem.u1.cons[i] = m.u1.cons[i] /\ knl.mem.Yjm2.cons[i] = m.Yjm2.cons[i]
       /\ \A id \in KnIters :
            /\ knl.it[id].pc \in {"Yjm2", "Yjm1", "done"} => knl.it[id].Yj = KnAlone(id)
            /\ knl.mem.Yjm2.cons[id[2]][id[1]] =
                 IF knl.it[id].pc \in {"Yjm1", "done"} THEN m.u1.cons[id[2]][id[1]]
                 ELSE m.Yjm2.cons[id[2]][id[1]]
            /\ knl.mem.u1.cons[id[2]][id[1]] =
                 IF knl.it[id].pc = "done" THEN KnAlone(id) ELSE m.u1.cons[id[2]][id[1]]

\* the kernel of a sub-stage after the first has returned, and it changed Yjm1
\* and Yjm2 in every interior cell
C29_Witness ==
  /\ knl.pc = "complete" /\ knl.j = KnStages
  /\ \A id \in KnIters :
       /\ knl.mem.u1.cons[id[2]][id[1]] # KnMemory(knl.q).u1.cons[id[2]][id[1]]
       /\ knl.mem.Yjm2.cons[id[2]][id[1]] # KnMemory(knl.q).Yjm2.cons[id[2]][id[1]]

\* an iteration reads while its neighbour has already stored
C29_WitnessInterleaved ==
  /\ knl.pc = "RKL step"
  /\ knl.it[<<"d", 1>>].pc = "done" /\ knl.it[<<"d", 2>>].pc = "calc"
  /\ knl.it[<<"e", 2>>].pc = "Yjm1" /\ knl.it[<<"e", 1>>].pc = "Yjm2"


(***************************************************************************)
(* DonorCellX1KJI, DonorCellX2KJI, DonorCellX3KJI (recon/dc.cpp:16-58) on  *)
(* arrays of DcVars variables and DcSize cells a side                      *)
(***************************************************************************)
DcVars == 2
DcSize == 3

DcIdx == 0..(DcSize - 1)
DcIndices == (0..(DcVars - 1)) \X DcIdx \X DcIdx \X DcIdx

\* the cell-centred array, and what wl and wr hold before the call
DcCell(x) == ((x[1] * DcSize + x[2]) * DcSize + x[3]) * DcSize + x[4] + 1
DcOld(x) == 0 - DcCell(x)
DcArrays ==
  [w |-> [x \in DcIndices |-> DcCell(x)],
   wl |-> [x \in DcIndices |-> DcOld(x)],
   wr |-> [x \in DcIndices |-> DcOld(x)]]

\* par_for(0, NHYDRO - 1, kl, ku, jl, ju, il, iu): the indices of the loop
DcLoop(r) ==
  { x \in DcIndices : /\ r.kl <= x[2] /\ x[2] <= r.ku
                      /\ r.jl <= x[3] /\ x[3] <= r.ju
                      /\ r.il <= x[4] /\ x[4] <= r.iu }

\* wl(n, k, j, i) = w(n, k, j, i - 1); wr(n, k, j, i) = w(n, k, j, i)
DonorCellX1KJI(r, a) ==
  [a EXCEPT
     !.wl = [x \in DcIndices |->
               IF x \in DcLoop(r) THEN a.w[<<x[1], x[2], x[3], x[4] - 1>>] ELSE a.wl[x]],
     !.wr = [x \in DcIndices |-> IF x \in DcLoop(r) THEN a.w[x] ELSE a.wr[x]]]
\* a reconstruction along x2 that takes the cell before along x1
DonorCellX2KJIAlongX1(r, a) ==
  [a EXCEPT
     !.wl = [x \in DcIndices |->
               IF x \in DcLoop(r) THEN a.w[<<x[1], x[2], x[3], (x[4] + DcSize - 1) % DcSize>>]
               ELSE a.wl[x]],
     !.wr = [x \in DcIndices |-> IF x \in DcLoop(r) THEN a.w[x] ELSE a.wr[x]]]
\* wl(n, k, j, i) = w(n, k, j - 1, i); wr(n, k, j, i) = w(n, k, j, i)
DonorCellX2KJI(r, a) ==
  [a EXCEPT
     !.wl = [x \in DcIndices |->
               IF x \in DcLoop(r) THEN a.w[<<x[1], x[2], x[3] - 1, x[4]>>] ELSE a.wl[x]],
     !.wr = [x \in DcIndices |-> IF x \in DcLoop(r) THEN a.w[x] ELSE a.wr[x]]]
\* wl(n, k, j, i) = w(n, k - 1, j, i); wr(n, k, j, i) = w(n, k, j, i)
DonorCellX3KJI(r, a) ==
  [a EXCEPT
     !.wl = [x \in DcIndices |->
               IF x \in DcLoop(r) THEN a.w[<<x[1], x[2] - 1, x[3], x[4]>>] ELSE a.wl[x]],
     !.wr = [x \in DcIndices |-> IF x \in DcLoop(r) THEN a.w[x] ELSE a.wr[x]]]

\* the ranges a caller passes: within the arrays, and from the second cell on
\* along the direction of the reconstruction
DcRanges(dir) ==
  { r \in [kl : DcIdx, ku : DcIdx, jl : DcIdx, ju : DcIdx, il : DcIdx, iu : DcIdx] :
      /\ r.kl <= r.ku /\ r.jl <= r.ju /\ r.il <= r.iu
      /\ dir = 1 => r.il >= 1
      /\ dir = 2 => r.jl >= 1
      /\ dir = 3 => r.kl >= 1 }

InitDonor ==
  /\ ini = IniIdle /\ stg = StgIdle /\ est = EstIdle /\ DriverIdle
  /\ cnd = CndIdle /\ agn = AgnIdle /\ flx = FlxIdle
  /\ \E dir \in 1..3 : \E r \in DcRanges(dir) :
       knl = [pc |-> "DonorCell", dir |-> dir, r |-> r, a |-> DcArrays]

CallDonorCellX1KJI ==
  /\ knl.pc = "DonorCell" /\ knl.dir = 1
  /\ knl' = [knl EXCEPT !.pc = "reconstructed", !.a = DonorCellX1KJI(knl.r, @)]
  /\ UNCHANGED KnlOthers
CallDonorCellX2KJI ==
  /\ knl.pc = "DonorCell" /\ knl.dir = 2
  /\ knl' = [knl EXCEPT !.pc = "reconstructed", !.a = DonorCellX2KJI(knl.r, @)]
  /\ UNCHANGED KnlOthers
CallDonorCellX3KJI ==
  /\ knl.pc = "DonorCell" /\ knl.dir = 3
  /\ knl' = [knl EXCEPT !.pc = "reconstructed", !.a = DonorCellX3KJI(knl.r, @)]
  /\ UNCHANGED KnlOthers

NextDonor == CallDonorCellX1KJI \/ CallDonorCellX2KJI \/ CallDonorCellX3KJI
SpecDonor == InitDonor /\ [][NextDonor]_vars

\* the cell before x along direction dir
DcBefore(x, dir) ==
  IF dir = 1 THEN <<x[1], x[2], x[3], x[4] - 1>>
  ELSE IF dir = 2 THEN <<x[1], x[2], x[3] - 1, x[4]>>
  ELSE <<x[1], x[2] - 1, x[3], x[4]>>

\* C26: DonorCellXdKJI sets, for every variable and every index of the given
\* range, the left state to the value of the cell before along d and the right
\* state to the value of the cell itself; it leaves the cell-centred array as it
\* is and writes no entry of wl or wr outside the range
C26_DonorCell ==
  knl.pc = "reconstructed" =>
    /\ knl.a.w = DcArrays.w
    /\ \A x \in DcIndices :
         IF /\ knl.r.kl <= x[2] /\ x[2] <= knl.r.ku
            /\ knl.r.jl <= x[3] /\ x[3] <= knl.r.ju
            /\ knl.r.il <= x[4] /\ x[4] <= knl.r.iu
           THEN /\ knl.a.wl[x] = DcCell(DcBefore(x, knl.dir))
                /\ knl.a.wr[x] = DcCell(x)
         ELSE knl.a.wl[x] = DcOld(x) /\ knl.a.wr[x] = DcOld(x)

\* DonorCellX3KJI has run over a range that leaves entries out
C26_Witness ==
  /\ knl.pc = "reconstructed" /\ knl.dir = 3
  /\ knl.r.kl = 1 /\ knl.r.ku = 2 /\ knl.r.il = 1 /\ knl.r.iu = 1
  /\ knl.a.wl[<<1, 2, 1, 1>>] = DcCell(<<1, 1, 1, 1>>)
  /\ knl.a.wl[<<1, 2, 1, 0>>] = DcOld(<<1, 2, 1, 0>>)


(***************************************************************************)
(* ThermalFluxIsoFixed and ThermalFluxGeneral on the arrays of a block     *)
(* (conduction.cpp:180-249, 255-478): ThNx interior cells and ThGhost      *)
(* ghost cells on each side along the directions the mesh has, one cell    *)
(* along the others                                                        *)
(***************************************************************************)
ThNx == 2
ThGhost == 1

\* cellbounds.GetBounds{I,J,K}(IndexDomain::interior) and the extent of the arrays
\* along direction d; a cell is <<k, j, i>>
ThS(ndim, d) == IF d <= ndim THEN ThGhost ELSE 0
ThE(ndim, d) == IF d <= ndim THEN ThGhost + ThNx - 1 ELSE 0
ThLast(ndim, d) == IF d <= ndim THEN ThNx + 2 * ThGhost - 1 ELSE 0
ThAt(x, d) == x[4 - d]
ThCells(ndim) == (0..ThLast(ndim, 3)) \X (0..ThLast(ndim, 2)) \X (0..ThLast(ndim, 1))
ThBefore(x, dir) == [n \in 1..3 |-> IF n = 4 - dir THEN x[n] - 1 ELSE x[n]]

\* the loop of the sweep along dir over the whole transverse extent
ThLoopEntire(ndim, dir) ==
  { x \in ThCells(ndim) : ThS(ndim, dir) <= ThAt(x, dir) /\ ThAt(x, dir) <= ThE(ndim, dir) + 1 }
\* par_for(..., kb.s, kb.e, jb.s, jb.e, ib.s, ib.e + 1, ...) and its likes
ThLoop(ndim, dir) ==
  { x \in ThCells(ndim) :
      \A d \in Dirs : /\ ThS(ndim, d) <= ThAt(x, d)
                      /\ ThAt(x, d) <= ThE(ndim, d) + (IF d = dir THEN 1 ELSE 0) }

\* ThermalFluxIsoFixed, the kernel of the sweep along dir at cell x
ThIsoTerm(thermal_diff_coeff, prim, dir, x) ==
  LET lo == prim[ThBefore(x, dir)]
      hi == prim[x]
      T_i == RDiv(hi.p, hi.rho)
      T_im1 == RDiv(lo.p, lo.rho)
      dTdx == RDiv(RSub(T_i, T_im1), CndDx[dir])
      denf == RMul(Rat(1, 2), RAdd(hi.rho, lo.rho))
  IN RMul(RMul(thermal_diff_coeff, denf), dTdx)

\* ThermalFluxIsoFixed(md): cons.flux(XdDIR, IEN, k, j, i) -= ... in the sweeps of
\* the directions the mesh has
ThermalFluxIsoFixedMd(td, ndim, blk) ==
  LET thermal_diff_coeff == Get(td, R(0), R(0), R(0))
  IN [blk EXCEPT !.flux = [dir \in Dirs |-> [x \in ThCells(ndim) |->
        IF dir <= ndim /\ x \in ThLoop(ndim, dir)
        THEN [blk.flux[dir][x] EXCEPT
                !.e = RSub(@, ThIsoTerm(thermal_diff_coeff, blk.prim, dir, x))]
        ELSE blk.flux[dir][x]]]]

\* ThermalFluxGeneral(md): the same sweeps with the kernel of the general case;
\* lim holds the results of limiters::lim4 on the transverse differences
ThermalFluxGeneralMd(td, ndim, blk, lim) ==
  [blk EXCEPT !.flux = [dir \in Dirs |-> [x \in ThCells(ndim) |->
     IF dir <= ndim /\ x \in ThLoop(ndim, dir)
     THEN [blk.flux[dir][x] EXCEPT
             !.e = RAdd(@, ThermalFluxGeneralFace(td, ndim, dir, blk.prim[ThBefore(x, dir)],
                                                  blk.prim[x], lim).val)]
     ELSE blk.flux[dir][x]]]]

\* the block before the call: the temperature is uniform (axis 0) or alternates
\* along one axis, the field is uniform, every flux entry and every conserved
\* state differs from its neighbours
ThPrim(ndim, axis, B) ==
  [x \in ThCells(ndim) |->
     [p |-> IF axis > 0 /\ ThAt(x, axis) % 2 = 1 THEN R(4) ELSE R(1), rho |-> R(1), B |-> B]]
ThMark(x) == (x[1] * 8 + x[2]) * 8 + x[3]
ThCons(ndim) ==
  [x \in ThCells(ndim) |-> [d |-> R(1), m |-> R(ThMark(x)), e |-> R(ThMark(x) + 3)]]
ThFlux(ndim) ==
  [dir \in Dirs |-> [x \in ThCells(ndim) |->
     [d |-> R(dir), m |-> R(ThMark(x) + dir), e |-> R(ThMark(x) + 2 * dir)]]]
ThBlock(in) ==
  [prim |-> ThPrim(in.ndim, in.axis, in.B), cons |-> ThCons(in.ndim),
   flux |-> ThFlux(in.ndim)]

\* the magnitude of the temperature gradient is rational at every face
ThRational(in) ==
  \A dir \in 1..in.ndim : \A x \in ThLoop(in.ndim, dir) :
    LET prim == ThPrim(in.ndim, in.axis, in.B)
        dT == FaceGrad(in.ndim, dir, prim[ThBefore(x, dir)], prim[x], in.lim)
    IN IsSquare(Dot3(dT, dT))

ThFields == { Vec(3, 4, 0), Vec(0, 0, 1) }
ThInputs ==
  { in \in [routine : {"ThermalFluxIsoFixed", "ThermalFluxGeneral"},
            td : CndDiffusivities, ndim : Dirs, axis : 0..3, B : ThFields, lim : CndLims] :
      /\ in.axis <= in.ndim
      /\ in.td.coeff_type # "none"
      /\ in.routine = "ThermalFluxIsoFixed" =>
           /\ in.td.type = "isotropic" /\ in.td.coeff_type = "fixed"
           /\ in.B = Vec(0, 0, 1) /\ in.lim = Vec(0, 0, 0)
      /\ in.routine = "ThermalFluxGeneral" /\ in.td.coeff_type = "spitzer" => ThRational(in) }

InitThermal ==
  /\ ini = IniIdle /\ stg = StgIdle /\ est = EstIdle /\ DriverIdle
  /\ cnd = CndIdle /\ agn = AgnIdle /\ flx = FlxIdle
  /\ \E in \in ThInputs : knl = [pc |-> in.routine, in |-> in, blk |-> ThBlock(in)]

CallThermalFluxIsoFixed ==
  /\ knl.pc = "ThermalFluxIsoFixed"
  /\ knl' = [knl EXCEPT !.pc = "done",
                        !.blk = ThermalFluxIsoFixedMd(knl.in.td, knl.in.ndim, @)]
  /\ UNCHANGED KnlOthers
\* PARTHENON_FAIL ends the run
CallThermalFluxGeneral ==
  /\ knl.pc = "ThermalFluxGeneral"
  /\ knl' = IF knl.in.td.type \notin {"anisotropic", "isotropic"}
            THEN [knl EXCEPT !.pc = "failed"]
            ELSE [knl EXCEPT !.pc = "done",
                    !.blk = ThermalFluxGeneralMd(knl.in.td, knl.in.ndim, @, knl.in.lim)]
  /\ UNCHANGED KnlOthers

NextThermal == CallThermalFluxIsoFixed \/ CallThermalFluxGeneral
SpecThermal == InitThermal /\ [][NextThermal]_vars

\* the conduction term of the routine at the interface below cell x along dir
ThTerm(in, dir, x) ==
  LET prim == ThPrim(in.ndim, in.axis, in.B)
      lo == prim[ThBefore(x, dir)]
      hi == prim[x]
  IN IF in.routine = "ThermalFluxIsoFixed"
     THEN RMul(RMul(in.td.coeff, RMul(Rat(1, 2), RAdd(lo.rho, hi.rho))),
               RDiv(RSub(RDiv(hi.p, hi.rho), RDiv(lo.p, lo.rho)), CndDx[dir]))
     ELSE RNeg(ThermalFluxGeneralFace(in.td, in.ndim, dir, lo, hi, in.lim).val)

\* C28: a conduction flux routine returns the block with the conserved and
\* primitive variables and the density and momentum fluxes as they were; the
\* energy flux of direction dir is the stored value minus the conduction term at
\* the interfaces start..end+1 along dir with interior transverse indices when
\* the mesh has direction dir, and the stored value everywhere else
C28_ThermalFluxFrame ==
  knl.pc = "done" =>
    LET in == knl.in
        old == ThBlock(in)
    IN /\ knl.blk.cons = old.cons
       /\ knl.blk.prim = old.prim
       /\ \A dir \in Dirs : \A x \in ThCells(in.ndim) :
            /\ knl.blk.flux[dir][x].d = old.flux[dir][x].d
            /\ knl.blk.flux[dir][x].m = old.flux[dir][x].m
            /\ knl.blk.flux[dir][x].e =
                 IF /\ dir <= in.ndim
                    /\ \A d \in Dirs \ {dir} :
                         ThS(in.ndim, d) <= ThAt(x, d) /\ ThAt(x, d) <= ThE(in.ndim, d)
                    /\ ThS(in.ndim, dir) <= ThAt(x, dir)
                    /\ ThAt(x, dir) <= ThE(in.ndim, dir) + 1
                 THEN RSub(old.flux[dir][x].e, ThTerm(in, dir, x))
                 ELSE old.flux[dir][x].e

\* ThermalFluxGeneral has returned on a two-dimensional block whose temperature
\* alternates along x2: an interior x2 interface has a new energy flux, the same
\* interface in a ghost column and the x3 fluxes have the old ones
C28_Witness ==
  /\ knl.pc = "done" /\ knl.in.routine = "ThermalFluxGeneral"
  /\ knl.in.ndim = 2 /\ knl.in.axis = 2 /\ knl.in.td.type = "anisotropic"
  /\ knl.blk.flux[2][<<0, 2, 1>>].e # ThFlux(2)[2][<<0, 2, 1>>].e
  /\ knl.blk.flux[2][<<0, 2, 0>>].e = ThFlux(2)[2][<<0, 2, 0>>].e
  /\ knl.blk.flux[3] = ThFlux(2)[3]

\* ThermalFluxIsoFixed has returned on a one-dimensional block with a gradient
C28_WitnessIso ==
  /\ knl.pc = "done" /\ knl.in.routine = "ThermalFluxIsoFixed"
  /\ knl.in.ndim = 1 /\ knl.in.axis = 1
  /\ knl.blk.flux[1][<<0, 0, 3>>].e # ThFlux(1)[1][<<0, 0, 3>>].e
  /\ knl.blk.flux[2] = ThFlux(1)[2]

=============================================================================
